---- MODULE Spec2Model ----
(***************************************************************************)
(* A model of the gym-leads acquisition-and-reconciliation pipeline:       *)
(*   scrapers/base.py   BaseScraper.run (retry wrapper), normalize_phone   *)
(*   scrape.py          run_scraper, main (orchestrator)                   *)
(*   utils/geo.py       geocode_city and its whole-file cache              *)
(*   utils/dedup.py     deduplicate (reconciler)                           *)
(*   utils/csv_writer.py  clean_name, write_leads_csv (sink)               *)
(* A Python str is a sequence of one-character strings.                    *)
(***************************************************************************)
EXTENDS Integers, Sequences, FiniteSets, TLC

(* ------------------------------------------------------------------ *)
(* Characters and strings                                               *)
(* ------------------------------------------------------------------ *)

\* The printable ASCII characters in code-point order, from 32 to 126
\* (code 96, the grave accent, is written GRAVE: it occurs in no input).
Ascii ==
  << " ", "!", "\"", "#", "$", "%", "&", "'", "(", ")", "*", "+", ",", "-", ".", "/",
     "0", "1", "2", "3", "4", "5", "6", "7", "8", "9", ":", ";", "<", "=", ">", "?",
     "@", "A", "B", "C", "D", "E", "F", "G", "H", "I", "J", "K", "L", "M", "N", "O",
     "P", "Q", "R", "S", "T", "U", "V", "W", "X", "Y", "Z", "[", "\\", "]", "^", "_",
     "GRAVE", "a", "b", "c", "d", "e", "f", "g", "h", "i", "j", "k", "l", "m", "n", "o",
     "p", "q", "r", "s", "t", "u", "v", "w", "x", "y", "z", "{", "|", "}", "~" >>

\* ord(c)
Ord(c) == 31 + (CHOOSE i \in 1..Len(Ascii) : Ascii[i] = c)

\* the character classes: all, [A-Z], [a-z], \d, \w, \s
Chars == {Ascii[k] : k \in 1..Len(Ascii)}
UpperChars ==
  {"A", "B", "C", "D", "E", "F", "G", "H", "I", "J", "K", "L", "M",
   "N", "O", "P", "Q", "R", "S", "T", "U", "V", "W", "X", "Y", "Z"}
LowerChars ==
  {"a", "b", "c", "d", "e", "f", "g", "h", "i", "j", "k", "l", "m",
   "n", "o", "p", "q", "r", "s", "t", "u", "v", "w", "x", "y", "z"}
DigitChars == {"0", "1", "2", "3", "4", "5", "6", "7", "8", "9"}
WordChars == UpperChars \cup LowerChars \cup DigitChars \cup {"_"}
SpaceChars == {" "}

IsUpper(c) == c \in UpperChars
IsLowerAlpha(c) == c \in LowerChars
IsAlpha(c) == IsUpper(c) \/ IsLowerAlpha(c)
IsDigit(c) == c \in DigitChars
\* the regex class \w
IsWord(c) == IsAlpha(c) \/ IsDigit(c) \/ c = "_"
\* the regex class \s and the whitespace of str.strip(), within printable ASCII
IsSpace(c) == c = " "

\* the lowercase of each uppercase letter and the reverse
LOWER_OF ==
  [A |-> "a", B |-> "b", C |-> "c", D |-> "d", E |-> "e", F |-> "f", G |-> "g", H |-> "h", I |-> "i",
   J |-> "j", K |-> "k", L |-> "l", M |-> "m", N |-> "n", O |-> "o", P |-> "p", Q |-> "q", R |-> "r",
   S |-> "s", T |-> "t", U |-> "u", V |-> "v", W |-> "w", X |-> "x", Y |-> "y", Z |-> "z"]
UPPER_OF ==
  [a |-> "A", b |-> "B", c |-> "C", d |-> "D", e |-> "E", f |-> "F", g |-> "G", h |-> "H", i |-> "I",
   j |-> "J", k |-> "K", l |-> "L", m |-> "M", n |-> "N", o |-> "O", p |-> "P", q |-> "Q", r |-> "R",
   s |-> "S", t |-> "T", u |-> "U", v |-> "V", w |-> "W", x |-> "X", y |-> "Y", z |-> "Z"]

LowerChar(c) == IF IsUpper(c) THEN LOWER_OF[c] ELSE c
UpperChar(c) == IF IsLowerAlpha(c) THEN UPPER_OF[c] ELSE c

\* str.lower(), str.upper()
Lower(s) == [i \in 1..Len(s) |-> LowerChar(s[i])]
Upper(s) == [i \in 1..Len(s) |-> UpperChar(s[i])]

Min(a, b) == IF a <= b THEN a ELSE b
Max(a, b) == IF a >= b THEN a ELSE b

\* s[lo:hi] with 1-based inclusive bounds; empty when lo > hi
Slice(s, lo, hi) == IF lo > hi THEN << >> ELSE SubSeq(s, lo, hi)

\* str.strip()
Strip(s) ==
  LET nonsp == {i \in 1..Len(s) : ~IsSpace(s[i])}
  IN  IF nonsp = {} THEN << >>
      ELSE LET lo == CHOOSE i \in nonsp : \A j \in nonsp : i <= j
               hi == CHOOSE i \in nonsp : \A j \in nonsp : i >= j
           IN  SubSeq(s, lo, hi)

\* s.startswith(p)
StartsWith(s, p) == Len(p) <= Len(s) /\ SubSeq(s, 1, Len(p)) = p

\* lexicographic order of str by code point: a < b
RECURSIVE StrLess(_, _)
StrLess(a, b) ==
  IF b = << >> THEN FALSE
  ELSE IF a = << >> THEN TRUE
  ELSE IF a[1] # b[1] THEN Ord(a[1]) < Ord(b[1])
  ELSE StrLess(Tail(a), Tail(b))

\* re.sub(pattern, "", s) for a pattern that never matches the empty string:
\* matchLen[i] is the length of the pattern's match starting at position i,
\* or 0 when there is none; matches are taken leftmost and do not overlap.
ReSub(s, matchLen) ==
  LET from[i \in 1..(Len(s) + 1)] ==
        IF i > Len(s) THEN << >>
        ELSE IF matchLen[i] > 0 THEN from[i + matchLen[i]]
        ELSE << s[i] >> \o from[i + 1]
  IN  from[1]

\* the regex assertion \b at the gap before position i (1..Len(s)+1)
WordBoundary(s, i) ==
  LET before == i > 1 /\ IsWord(s[i - 1])
      after  == i <= Len(s) /\ IsWord(s[i])
  IN  before # after

(* ------------------------------------------------------------------ *)
(* Lead and phone canonicalization (scrapers/base.py)                   *)
(* ------------------------------------------------------------------ *)

\* the dataclass Lead; every field is a str
MkLead(name, address, city, state, phone, website, type, source) ==
  [name |-> name, address |-> address, city |-> city, state |-> state,
   phone |-> phone, website |-> website, type |-> type, source |-> source]

\* re.sub(r"\D", "", raw)
Digits(raw) == SelectSeq(raw, IsDigit)

\* a canonicalizer that drops a leading 1 from eleven or more digits and gives
\* back the digits of what it cannot format
normalize_phoneDigits(raw) ==
  IF raw = << >> THEN << >>
  ELSE LET d0 == Digits(raw)
           digits == IF Len(d0) >= 11 /\ d0[1] = "1" THEN Tail(d0) ELSE d0
       IN  IF Len(digits) # 10 THEN digits
           ELSE << "(" >> \o SubSeq(digits, 1, 3) \o << ")", " " >>
                \o SubSeq(digits, 4, 6) \o << "-" >> \o SubSeq(digits, 7, 10)

\* a canonicalizer that gives the empty string for what it cannot format
normalize_phoneOrEmpty(raw) ==
  IF raw = << >> THEN << >>
  ELSE LET d0 == Digits(raw)
           digits == IF Len(d0) = 11 /\ d0[1] = "1" THEN Tail(d0) ELSE d0
       IN  IF Len(digits) # 10 THEN << >>
           ELSE << "(" >> \o SubSeq(digits, 1, 3) \o << ")", " " >>
                \o SubSeq(digits, 4, 6) \o << "-" >> \o SubSeq(digits, 7, 10)

normalize_phone(raw) ==
  IF raw = << >> THEN << >>
  ELSE LET d0 == Digits(raw)
           digits == IF Len(d0) = 11 /\ d0[1] = "1" THEN Tail(d0) ELSE d0
       IN  IF Len(digits) # 10 THEN raw
           ELSE << "(" >> \o SubSeq(digits, 1, 3) \o << ")", " " >>
                \o SubSeq(digits, 4, 6) \o << "-" >> \o SubSeq(digits, 7, 10)

(* ------------------------------------------------------------------ *)
(* Reconciler (utils/dedup.py)                                          *)
(* ------------------------------------------------------------------ *)

\* the number of consecutive characters of s from position i that are in class
RunLen(s, i, class) ==
  LET ok == {n \in 0..(Len(s) - i + 1) : \A k \in 0..(n - 1) : s[i + k] \in class}
  IN  CHOOSE n \in ok : \A m \in ok : m <= n

\* _STATE_ABBREV: pairs << abbreviation, lowercase full name >>
STATE_ABBREV ==
  {
     << << "A", "L" >>, << "a", "l", "a", "b", "a", "m", "a" >> >>,
     << << "A", "K" >>, << "a", "l", "a", "s", "k", "a" >> >>,
     << << "A", "Z" >>, << "a", "r", "i", "z", "o", "n", "a" >> >>,
     << << "A", "R" >>, << "a", "r", "k", "a", "n", "s", "a", "s" >> >>,
     << << "C", "A" >>, << "c", "a", "l", "i", "f", "o", "r", "n", "i", "a" >> >>,
     << << "C", "O" >>, << "c", "o", "l", "o", "r", "a", "d", "o" >> >>,
     << << "C", "T" >>, << "c", "o", "n", "n", "e", "c", "t", "i", "c", "u", "t" >> >>,
     << << "D", "E" >>, << "d", "e", "l", "a", "w", "a", "r", "e" >> >>,
     << << "F", "L" >>, << "f", "l", "o", "r", "i", "d", "a" >> >>,
     << << "G", "A" >>, << "g", "e", "o", "r", "g", "i", "a" >> >>,
     << << "H", "I" >>, << "h", "a", "w", "a", "i", "i" >> >>,
     << << "I", "D" >>, << "i", "d", "a", "h", "o" >> >>,
     << << "I", "L" >>, << "i", "l", "l", "i", "n", "o", "i", "s" >> >>,
     << << "I", "N" >>, << "i", "n", "d", "i", "a", "n", "a" >> >>,
     << << "I", "A" >>, << "i", "o", "w", "a" >> >>,
     << << "K", "S" >>, << "k", "a", "n", "s", "a", "s" >> >>,
     << << "K", "Y" >>, << "k", "e", "n", "t", "u", "c", "k", "y" >> >>,
     << << "L", "A" >>, << "l", "o", "u", "i", "s", "i", "a", "n", "a" >> >>,
     << << "M", "E" >>, << "m", "a", "i", "n", "e" >> >>,
     << << "M", "D" >>, << "m", "a", "r", "y", "l", "a", "n", "d" >> >>,
     << << "M", "A" >>, << "m", "a", "s", "s", "a", "c", "h", "u", "s", "e", "t", "t", "s" >> >>,
     << << "M", "I" >>, << "m", "i", "c", "h", "i", "g", "a", "n" >> >>,
     << << "M", "N" >>, << "m", "i", "n", "n", "e", "s", "o", "t", "a" >> >>,
     << << "M", "S" >>, << "m", "i", "s", "s", "i", "s", "s", "i", "p", "p", "i" >> >>,
     << << "M", "O" >>, << "m", "i", "s", "s", "o", "u", "r", "i" >> >>,
     << << "M", "T" >>, << "m", "o", "n", "t", "a", "n", "a" >> >>,
     << << "N", "E" >>, << "n", "e", "b", "r", "a", "s", "k", "a" >> >>,
     << << "N", "V" >>, << "n", "e", "v", "a", "d", "a" >> >>,
     << << "N", "H" >>, << "n", "e", "w", " ", "h", "a", "m", "p", "s", "h", "i", "r", "e" >> >>,
     << << "N", "J" >>, << "n", "e", "w", " ", "j", "e", "r", "s", "e", "y" >> >>,
     << << "N", "M" >>, << "n", "e", "w", " ", "m", "e", "x", "i", "c", "o" >> >>,
     << << "N", "Y" >>, << "n", "e", "w", " ", "y", "o", "r", "k" >> >>,
     << << "N", "C" >>, << "n", "o", "r", "t", "h", " ", "c", "a", "r", "o", "l", "i", "n", "a" >> >>,
     << << "N", "D" >>, << "n", "o", "r", "t", "h", " ", "d", "a", "k", "o", "t", "a" >> >>,
     << << "O", "H" >>, << "o", "h", "i", "o" >> >>,
     << << "O", "K" >>, << "o", "k", "l", "a", "h", "o", "m", "a" >> >>,
     << << "O", "R" >>, << "o", "r", "e", "g", "o", "n" >> >>,
     << << "P", "A" >>, << "p", "e", "n", "n", "s", "y", "l", "v", "a", "n", "i", "a" >> >>,
     << << "R", "I" >>, << "r", "h", "o", "d", "e", " ", "i", "s", "l", "a", "n", "d" >> >>,
     << << "S", "C" >>, << "s", "o", "u", "t", "h", " ", "c", "a", "r", "o", "l", "i", "n", "a" >> >>,
     << << "S", "D" >>, << "s", "o", "u", "t", "h", " ", "d", "a", "k", "o", "t", "a" >> >>,
     << << "T", "N" >>, << "t", "e", "n", "n", "e", "s", "s", "e", "e" >> >>,
     << << "T", "X" >>, << "t", "e", "x", "a", "s" >> >>,
     << << "U", "T" >>, << "u", "t", "a", "h" >> >>,
     << << "V", "T" >>, << "v", "e", "r", "m", "o", "n", "t" >> >>,
     << << "V", "A" >>, << "v", "i", "r", "g", "i", "n", "i", "a" >> >>,
     << << "W", "A" >>, << "w", "a", "s", "h", "i", "n", "g", "t", "o", "n" >> >>,
     << << "W", "V" >>, << "w", "e", "s", "t", " ", "v", "i", "r", "g", "i", "n", "i", "a" >> >>,
     << << "W", "I" >>, << "w", "i", "s", "c", "o", "n", "s", "i", "n" >> >>,
     << << "W", "Y" >>, << "w", "y", "o", "m", "i", "n", "g" >> >>,
     << << "D", "C" >>, << "d", "i", "s", "t", "r", "i", "c", "t", " ", "o", "f", " ", "c", "o", "l", "u", "m", "b", "i", "a" >> >>
  }

\* _STATE_TO_ABBREV = {v: k.lower() for k, v in _STATE_ABBREV.items()}
STATE_TO_ABBREV == {<< p[2], Lower(p[1]) >> : p \in STATE_ABBREV}

_normalize_state(state) ==
  LET s == Lower(Strip(state))
      upper == Upper(s)
  IN  IF \E p \in STATE_ABBREV : p[1] = upper THEN Lower(s)
      ELSE IF \E p \in STATE_TO_ABBREV : p[1] = s
           THEN (CHOOSE p \in STATE_TO_ABBREV : p[1] = s)[2]
           ELSE s

\* the words _normalize removes, in the order of its loop
STOP_WORDS ==
  << << "l", "l", "c" >>,
     << "i", "n", "c" >>,
     << "t", "h", "e" >>,
     << "g", "y", "m" >>,
     << "f", "i", "t", "n", "e", "s", "s" >>,
     << "s", "t", "u", "d", "i", "o" >>,
     << "c", "e", "n", "t", "e", "r" >>,
     << "c", "e", "n", "t", "r", "e" >> >>

\* the match of rf"\b{word}\b" at position i
StopWordLen(s, i, word) ==
  IF /\ i + Len(word) - 1 <= Len(s)
     /\ SubSeq(s, i, i + Len(word) - 1) = word
     /\ WordBoundary(s, i)
     /\ WordBoundary(s, i + Len(word))
  THEN Len(word) ELSE 0

\* the match of r"#\w+" at position i
HashCodeLen(s, i) ==
  IF s[i] = "#" /\ RunLen(s, i + 1, WordChars) > 0
  THEN 1 + RunLen(s, i + 1, WordChars) ELSE 0

\* the class [\.\-\w]
CodeTailChars == {".", "-"} \cup WordChars

\* the match of r"\b[A-Z]{2}[\.\-][A-Z]{2}[\.\-\w]*" (IGNORECASE) at position i
LocationCodeLen(s, i) ==
  IF /\ i + 4 <= Len(s)
     /\ WordBoundary(s, i)
     /\ IsAlpha(s[i]) /\ IsAlpha(s[i + 1])
     /\ s[i + 2] \in {".", "-"}
     /\ IsAlpha(s[i + 3]) /\ IsAlpha(s[i + 4])
  THEN 5 + RunLen(s, i + 5, CodeTailChars) ELSE 0

\* the match of r"[^a-z0-9\s]" at position i
PunctLen(s, i) ==
  IF IsLowerAlpha(s[i]) \/ IsDigit(s[i]) \/ IsSpace(s[i]) THEN 0 ELSE 1

\* re.sub(r"\s+", " ", s)
RECURSIVE CollapseSpaces(_)
CollapseSpaces(s) ==
  IF s = << >> THEN << >>
  ELSE IF IsSpace(s[1])
       THEN << " " >> \o CollapseSpaces(Slice(s, 1 + RunLen(s, 1, SpaceChars), Len(s)))
       ELSE << s[1] >> \o CollapseSpaces(Tail(s))

RECURSIVE RemoveStopWords(_, _)
RemoveStopWords(name, words) ==
  IF words = << >> THEN name
  ELSE RemoveStopWords(
         ReSub(name, [i \in 1..Len(name) |-> StopWordLen(name, i, Head(words))]),
         Tail(words))

_normalize(name) ==
  LET n1 == Strip(Lower(name))
      n2 == RemoveStopWords(n1, STOP_WORDS)
      n3 == ReSub(n2, [i \in 1..Len(n2) |-> HashCodeLen(n2, i)])
      n4 == ReSub(n3, [i \in 1..Len(n3) |-> LocationCodeLen(n3, i)])
      n5 == ReSub(n4, [i \in 1..Len(n4) |-> PunctLen(n4, i)])
  IN  Strip(CollapseSpaces(n5))

\* the length of the common run of a from i and b from j, inside a[..ahi], b[..bhi]
FwdRun(a, i, ahi, b, j, bhi) ==
  LET run[t \in 0..Min(ahi - i + 1, bhi - j + 1)] ==
        IF t < Min(ahi - i + 1, bhi - j + 1) /\ a[i + t] = b[j + t]
        THEN run[t + 1] ELSE t
  IN  run[0]

\* SequenceMatcher.find_longest_match(alo, ahi, blo, bhi) without junk: the
\* longest matching block, the earliest in a and then the earliest in b among
\* the longest; << i, j, size >>, with size 0 when nothing matches
find_longest_match(a, alo, ahi, b, blo, bhi) ==
  LET starts == (alo..ahi) \X (blo..bhi)
      size == [p \in starts |-> FwdRun(a, p[1], ahi, b, p[2], bhi)]
      top == CHOOSE n \in {size[p] : p \in starts} : \A p \in starts : size[p] <= n
      longest == {p \in starts : size[p] = top}
      best == CHOOSE p \in longest :
                \A q \in longest : p[1] < q[1] \/ (p[1] = q[1] /\ p[2] <= q[2])
  IN  << best[1], best[2], top >>

\* the sum of the sizes of SequenceMatcher.get_matching_blocks()
RECURSIVE MatchTotal(_, _, _, _, _, _)
MatchTotal(a, alo, ahi, b, blo, bhi) ==
  IF alo > ahi \/ blo > bhi THEN 0
  ELSE LET m == find_longest_match(a, alo, ahi, b, blo, bhi)
       IN  IF m[3] = 0 THEN 0
           ELSE m[3] + MatchTotal(a, alo, m[1] - 1, b, blo, m[2] - 1)
                     + MatchTotal(a, m[1] + m[3], ahi, b, m[2] + m[3], bhi)

\* the default of deduplicate's threshold, 0.85, as a fraction
ThresholdNum == 85
ThresholdDen == 100

\* SequenceMatcher(None, a, b).ratio() >= num/den, for non-empty a and b
RatioAtLeast(a, b, num, den) ==
  2 * MatchTotal(a, 1, Len(a), b, 1, Len(b)) * den >= num * (Len(a) + Len(b))

_is_name_match(a, b, num, den) ==
  IF a = << >> \/ b = << >> THEN FALSE
  ELSE IF a = b THEN TRUE
  ELSE IF RatioAtLeast(a, b, num, den) THEN TRUE
  ELSE LET short == IF Len(a) <= Len(b) THEN a ELSE b
           long  == IF Len(a) <= Len(b) THEN b ELSE a
       IN  Len(short) >= 4 /\ StartsWith(long, short)

\* an "or" that prefers its second operand
StrOrLast(x, y) == IF y # << >> THEN y ELSE x

\* Python's "x or y" on str
StrOr(x, y) == IF x # << >> THEN x ELSE y

\* s.split(",")
RECURSIVE SplitComma(_)
SplitComma(s) ==
  IF \A i \in 1..Len(s) : s[i] # "," THEN << s >>
  ELSE LET k == CHOOSE i \in 1..Len(s) :
                  s[i] = "," /\ \A j \in 1..(i - 1) : s[j] # ","
       IN  << Slice(s, 1, k - 1) >> \o SplitComma(Slice(s, k + 1, Len(s)))

\* a tag set read off a source field without trimming the parts
SourceTagsNoStrip(source) ==
  LET parts == SplitComma(source)
  IN  {parts[i] : i \in 1..Len(parts)}

\* set(s.strip() for s in source.split(","))
SourceTags(source) ==
  LET parts == SplitComma(source)
  IN  {Strip(parts[i]) : i \in 1..Len(parts)}

\* sorted(S) for a set of str
RECURSIVE Sorted(_)
Sorted(S) ==
  IF S = {} THEN << >>
  ELSE LET least == CHOOSE x \in S : \A y \in S : y = x \/ StrLess(x, y)
       IN  << least >> \o Sorted(S \ {least})

\* ", ".join(parts)
RECURSIVE JoinCommaSpace(_)
JoinCommaSpace(parts) ==
  IF parts = << >> THEN << >>
  ELSE IF Len(parts) = 1 THEN parts[1]
  ELSE parts[1] \o << ",", " " >> \o JoinCommaSpace(Tail(parts))

\* a merge that takes the name of the incoming lead
_merge_leadsNewName(existing, new) ==
  [name    |-> StrOr(new.name, existing.name),
   address |-> StrOr(existing.address, new.address),
   city    |-> StrOr(existing.city, new.city),
   state   |-> StrOr(existing.state, new.state),
   phone   |-> StrOr(existing.phone, new.phone),
   website |-> StrOr(existing.website, new.website),
   type    |-> StrOr(existing.type, new.type),
   source  |-> JoinCommaSpace(Sorted(SourceTags(existing.source)
                                     \cup SourceTags(new.source)))]

\* a merge that prefers the fields of the incoming lead
_merge_leadsPreferNew(existing, new) ==
  [name    |-> StrOr(new.name, existing.name),
   address |-> StrOr(new.address, existing.address),
   city    |-> StrOr(new.city, existing.city),
   state   |-> StrOr(new.state, existing.state),
   phone   |-> StrOr(new.phone, existing.phone),
   website |-> StrOr(new.website, existing.website),
   type    |-> StrOr(new.type, existing.type),
   source  |-> JoinCommaSpace(Sorted(SourceTags(existing.source)
                                     \cup SourceTags(new.source)))]

_merge_leads(existing, new) ==
  [name    |-> StrOr(existing.name, new.name),
   address |-> StrOr(existing.address, new.address),
   city    |-> StrOr(existing.city, new.city),
   state   |-> StrOr(existing.state, new.state),
   phone   |-> StrOr(existing.phone, new.phone),
   website |-> StrOr(existing.website, new.website),
   type    |-> StrOr(existing.type, new.type),
   source  |-> JoinCommaSpace(Sorted(SourceTags(existing.source)
                                     \cup SourceTags(new.source)))]

\* a test that looks at the names only
IsDuplicateByName(lead, existing, num, den) ==
  _is_name_match(_normalize(lead.name), _normalize(existing.name), num, den)

\* the test of deduplicate's inner loop: same city and state, and a name match
IsDuplicate(lead, existing, num, den) ==
  /\ Strip(Lower(lead.city)) = Strip(Lower(existing.city))
  /\ _normalize_state(lead.state) = _normalize_state(existing.state)
  /\ _is_name_match(_normalize(lead.name), _normalize(existing.name), num, den)

\* a scan that does not stop at the first match: the last one wins
LastMatch(unique, lead, num, den) ==
  LET hits == {i \in 1..Len(unique) : IsDuplicate(lead, unique[i], num, den)}
  IN  IF hits = {} THEN 0 ELSE CHOOSE h \in hits : \A g \in hits : h >= g

\* deduplicate's inner loop: the index of the first bucket, in insertion
\* order, that the lead duplicates, or 0 when the loop ends with matched = False
FirstMatch(unique, lead, num, den) ==
  LET hits == {i \in 1..Len(unique) : IsDuplicate(lead, unique[i], num, den)}
  IN  IF hits = {} THEN 0 ELSE CHOOSE h \in hits : \A g \in hits : h <= g

\* an iteration that drops a lead that duplicates a bucket
DedupStepDrop(unique, lead, num, den) ==
  LET i == FirstMatch(unique, lead, num, den)
  IN  IF i = 0 THEN Append(unique, lead) ELSE unique

\* an iteration that puts a new bucket in front
DedupStepFront(unique, lead, num, den) ==
  LET i == FirstMatch(unique, lead, num, den)
  IN  IF i = 0 THEN << lead >> \o unique
      ELSE [unique EXCEPT ![i] = _merge_leads(unique[i], lead)]

\* one iteration of deduplicate's outer loop: merge into the first matching
\* bucket, or append
DedupStep(unique, lead, num, den) ==
  LET i == FirstMatch(unique, lead, num, den)
  IN  IF i = 0 THEN Append(unique, lead)
      ELSE [unique EXCEPT ![i] = _merge_leads(unique[i], lead)]

\* a merge that writes the merged fields into the bucket's own Lead
InstallInPlace(heap, refs, i, r) ==
  [heap |-> [heap EXCEPT ![refs[i]] = _merge_leads(heap[refs[i]], heap[r])],
   refs |-> refs]

\* "unique[i] = _merge_leads(existing, lead)" on the objects: _merge_leads
\* builds a new Lead from the bucket's Lead and the incoming one, and slot i
\* of unique takes the reference of the new Lead
Install(heap, refs, i, r) ==
  [heap |-> Append(heap, _merge_leads(heap[refs[i]], heap[r])),
   refs |-> [refs EXCEPT ![i] = Len(heap) + 1]]

RECURSIVE DedupLoop(_, _, _, _)
DedupLoop(unique, leads, num, den) ==
  IF leads = << >> THEN unique
  ELSE DedupLoop(DedupStep(unique, Head(leads), num, den), Tail(leads), num, den)

deduplicateWith(leads, num, den) ==
  IF leads = << >> THEN << >> ELSE DedupLoop(<< >>, leads, num, den)

\* deduplicate(leads) with the default threshold
deduplicate(leads) == deduplicateWith(leads, ThresholdNum, ThresholdDen)

(* ------------------------------------------------------------------ *)
(* Sink (utils/csv_writer.py)                                           *)
(* ------------------------------------------------------------------ *)

\* the match of r"\s*#\w+$" at position i
HashSuffixLen(s, i) ==
  LET h == i + RunLen(s, i, SpaceChars)
  IN  IF /\ h <= Len(s)
         /\ s[h] = "#"
         /\ RunLen(s, h + 1, WordChars) > 0
         /\ h + RunLen(s, h + 1, WordChars) = Len(s)
      THEN Len(s) - i + 1 ELSE 0

\* the match of r",?\s*[A-Z]{2}-[A-Z]{2}-\d+$" at position i
DashCodeSuffixLen(s, i) ==
  LET c == IF s[i] = "," THEN i + 1 ELSE i
      u == c + RunLen(s, c, SpaceChars)
  IN  IF /\ u + 6 <= Len(s)
         /\ IsUpper(s[u]) /\ IsUpper(s[u + 1]) /\ s[u + 2] = "-"
         /\ IsUpper(s[u + 3]) /\ IsUpper(s[u + 4]) /\ s[u + 5] = "-"
         /\ RunLen(s, u + 6, DigitChars) > 0
         /\ u + 5 + RunLen(s, u + 6, DigitChars) = Len(s)
      THEN Len(s) - i + 1 ELSE 0

\* the match of r"\s+[A-Z]{2}\.[A-Z]{2}\.[A-Z]{2}$" at position i
DotCodeSuffixLen(s, i) ==
  LET u == i + RunLen(s, i, SpaceChars)
  IN  IF /\ u > i
         /\ u + 7 = Len(s)
         /\ IsUpper(s[u]) /\ IsUpper(s[u + 1]) /\ s[u + 2] = "."
         /\ IsUpper(s[u + 3]) /\ IsUpper(s[u + 4]) /\ s[u + 5] = "."
         /\ IsUpper(s[u + 6]) /\ IsUpper(s[u + 7])
      THEN Len(s) - i + 1 ELSE 0

clean_name(name) ==
  LET n1 == ReSub(name, [i \in 1..Len(name) |-> HashSuffixLen(name, i)])
      n2 == ReSub(n1, [i \in 1..Len(n1) |-> DashCodeSuffixLen(n1, i)])
      n3 == ReSub(n2, [i \in 1..Len(n2) |-> DotCodeSuffixLen(n2, i)])
  IN  Strip(n3)

\* a sink that writes the leads as they are
CsvRowsRaw(leads) == leads

\* the rows write_leads_csv writes after the header, one per lead
CsvRows(leads) ==
  [i \in 1..Len(leads) |->
     [leads[i] EXCEPT !.name = clean_name(leads[i].name),
                      !.phone = normalize_phone(leads[i].phone)]]

(* ------------------------------------------------------------------ *)
(* Location resolver (utils/geo.py)                                     *)
(* ------------------------------------------------------------------ *)

ASHBURN_VA == << "A", "s", "h", "b", "u", "r", "n", ",", " ", "V", "A" >>
NOWHERE_ZZ == << "N", "o", "w", "h", "e", "r", "e", ",", " ", "Z", "Z" >>
RESTON_VA == << "R", "e", "s", "t", "o", "n", ",", " ", "V", "A" >>

\* the query strings given as --city
Queries == {ASHBURN_VA, NOWHERE_ZZ}

None == [none |-> TRUE]

\* _geocoder.geocode(city_str, addressdetails=True, exactly_one=True): the
\* external geocoder answers with a location or with None; coordinates are
\* whole degrees
Nominatim(city_str) ==
  IF city_str = ASHBURN_VA
  THEN [latitude |-> 39, longitude |-> 0 - 77,
        address |-> [city |-> << >>, town |-> << "A", "s", "h", "b", "u", "r", "n" >>,
                     village |-> << >>, hamlet |-> << >>,
                     state |-> << "V", "i", "r", "g", "i", "n", "i", "a" >>]]
  ELSE IF city_str = RESTON_VA
  THEN [latitude |-> 38, longitude |-> 0 - 77,
        address |-> [city |-> << "R", "e", "s", "t", "o", "n" >>, town |-> << >>,
                     village |-> << >>, hamlet |-> << >>,
                     state |-> << "V", "i", "r", "g", "i", "n", "i", "a" >>]]
  ELSE None

HexDigits == << "0", "1", "2", "3", "4", "5", "6", "7", "8", "9",
                "A", "B", "C", "D", "E", "F" >>

\* urllib.parse.quote_plus(s) on printable ASCII
RECURSIVE quote_plus(_)
quote_plus(s) ==
  IF s = << >> THEN << >>
  ELSE LET c == s[1]
           q == IF IsAlpha(c) \/ IsDigit(c) \/ c \in {"_", ".", "-", "~"} THEN << c >>
                ELSE IF c = " " THEN << "+" >>
                ELSE << "%", HexDigits[(Ord(c) \div 16) + 1], HexDigits[(Ord(c) % 16) + 1] >>
       IN  q \o quote_plus(Tail(s))

\* re.sub(r"[^a-z0-9]+", "-", s.lower()).strip("-")
RECURSIVE SlugRuns(_)
SlugRuns(s) ==
  IF s = << >> THEN << >>
  ELSE IF IsLowerAlpha(s[1]) \/ IsDigit(s[1])
       THEN << s[1] >> \o SlugRuns(Tail(s))
       ELSE LET other == Chars \ (LowerChars \cup DigitChars)
            IN  << "-" >> \o SlugRuns(Slice(s, 1 + RunLen(s, 1, other), Len(s)))

Slug(s) ==
  LET r == SlugRuns(Lower(s))
      keep == {i \in 1..Len(r) : r[i] # "-"}
  IN  IF keep = {} THEN << >>
      ELSE SubSeq(r, CHOOSE i \in keep : \A j \in keep : i <= j,
                     CHOOSE i \in keep : \A j \in keep : i >= j)

\* the record geocode_city builds from the geocoder's location
GeoResult(city_str, location) ==
  LET address == location.address
      parts == SplitComma(city_str)
      city == StrOr(address.city, StrOr(address.town, StrOr(address.village,
                StrOr(address.hamlet, Strip(parts[1])))))
      state == StrOr(address.state,
                     IF Len(parts) > 1 THEN Strip(parts[2]) ELSE << >>)
  IN  [lat |-> location.latitude, lng |-> location.longitude,
       city |-> city, state |-> state,
       url_encoded |-> quote_plus(city_str), slug |-> Slug(city_str)]

\* the cache file: a function from query strings to records; a missing or
\* corrupt file loads as the empty dict
EmptyCache == [q \in {} |-> None]

\* a resolver that answers with a default place instead of raising
geocode_cityNoRaise(city_str, file) ==
  LET cache == file
  IN  IF city_str \in DOMAIN cache
      THEN [raised |-> FALSE, value |-> cache[city_str], file |-> file]
      ELSE LET location == Nominatim(city_str)
               found == IF location = None
                        THEN [latitude |-> 0, longitude |-> 0,
                              address |-> [city |-> << >>, town |-> << >>,
                                           village |-> << >>, hamlet |-> << >>,
                                           state |-> << >>]]
                        ELSE location
               result == GeoResult(city_str, found)
           IN  [raised |-> FALSE, value |-> result,
                file |-> [q \in DOMAIN cache \cup {city_str} |->
                            IF q = city_str THEN result ELSE cache[q]]]

\* geocode_city(city_str) against the cache file `file`: the value returned
\* (or raised = TRUE for the ValueError) and the cache file afterwards
geocode_city(city_str, file) ==
  LET cache == file
  IN  IF city_str \in DOMAIN cache
      THEN [raised |-> FALSE, value |-> cache[city_str], file |-> file]
      ELSE LET location == Nominatim(city_str)
           IN  IF location = None
               THEN [raised |-> TRUE, value |-> None, file |-> file]
               ELSE LET result == GeoResult(city_str, location)
                    IN  [raised |-> FALSE, value |-> result,
                         file |-> [q \in DOMAIN cache \cup {city_str} |->
                                     IF q = city_str THEN result ELSE cache[q]]]

(* ------------------------------------------------------------------ *)
(* Source adapters (scrapers/*.py): external collaborators              *)
(* ------------------------------------------------------------------ *)

MINDBODY == << "m", "i", "n", "d", "b", "o", "d", "y" >>
CROSSFIT == << "c", "r", "o", "s", "s", "f", "i", "t" >>
GOOGLE_MAPS == << "g", "o", "o", "g", "l", "e", "_", "m", "a", "p", "s" >>

\* SCRAPER_MAP's keys, in order
ALL_SOURCES == << MINDBODY, CROSSFIT, GOOGLE_MAPS >>

\* what each site lists, in its own order; an attempt that returns yields a
\* prefix of it (the site may list nothing)
Catalogue(source) ==
  IF source = MINDBODY THEN
    << MkLead(<< "G", "o", "l", "d", "'", "s", " ", "G", "y", "m", " ", "#", "0", "1" >>,
            << "1", " ", "M", "a", "i", "n" >>,
            << "A", "s", "h", "b", "u", "r", "n" >>, << "V", "A" >>,
            << >>, << >>,
            << "F", "i", "t", "n", "e", "s", "s" >>,
            << "m", "i", "n", "d", "b", "o", "d", "y" >>),
       MkLead(<< "I", "r", "o", "n", " ", "Y", "o", "g", "a" >>,
            << >>,
            << "A", "s", "h", "b", "u", "r", "n" >>, << "V", "A" >>,
            << "5", "7", "1", "2", "2", "3", "1", "6", "1", "5" >>, << >>,
            << "Y", "o", "g", "a" >>,
            << "m", "i", "n", "d", "b", "o", "d", "y" >>) >>
  ELSE IF source = CROSSFIT THEN
    << MkLead(<< "g", "o", "l", "d", "s", " ", "g", "y", "m" >>,
            << >>,
            << "a", "s", "h", "b", "u", "r", "n" >>, << "V", "i", "r", "g", "i", "n", "i", "a" >>,
            << "+", "1", " ", "5", "7", "1", " ", "2", "3", "4", " ", "5", "6", "7", "8" >>, << "g", ".", "c", "o" >>,
            << >>,
            << "c", "r", "o", "s", "s", "f", "i", "t" >>),
       MkLead(<< "C", "r", "o", "s", "s", "F", "i", "t", " ", "I", "r", "o", "n" >>,
            << "2", " ", "O", "a", "k" >>,
            << "A", "s", "h", "b", "u", "r", "n" >>, << "V", "A" >>,
            << >>, << >>,
            << "C", "r", "o", "s", "s", "F", "i", "t" >>,
            << "c", "r", "o", "s", "s", "f", "i", "t" >>) >>
  ELSE
    << MkLead(<< "I", "r", "o", "n", " ", "Y", "o", "g", "a", " ", "S", "t", "u", "d", "i", "o" >>,
            << >>,
            << "R", "e", "s", "t", "o", "n" >>, << "V", "A" >>,
            << "1", "2", "3" >>, << >>,
            << "Y", "o", "g", "a", " ", "s", "t", "u", "d", "i", "o" >>,
            << "g", "o", "o", "g", "l", "e", "_", "m", "a", "p", "s" >>),
       MkLead(<< "G", "o", "l", "d", "s" >>,
            << "9", " ", "E", "l", "m" >>,
            << "A", "s", "h", "b", "u", "r", "n" >>, << "V", "A" >>,
            << >>, << >>,
            << "G", "y", "m" >>,
            << "g", "o", "o", "g", "l", "e", "_", "m", "a", "p", "s" >>) >>

(* ------------------------------------------------------------------ *)
(* Retry wrapper (BaseScraper.run) and orchestrator (scrape.py main)    *)
(* ------------------------------------------------------------------ *)

\* BaseScraper.max_retries and BaseScraper.backoff_delays
MAX_RETRIES == 3
backoff_delays == << 5, 15, 30 >>

\* the most sources given as --sources
MaxSources == 2
\* the most leads one attempt returns
MaxLeads == 2
\* the largest retry budget of the retry-wrapper specification
MaxBudget == 5

VARIABLES
  city_str,        \* args.city
  sequential,      \* args.sequential
  sources,         \* args.sources, a list
  max_retries,     \* the scrapers' max_retries attribute
  cacheFile,       \* output/.geocache.json
  geo,             \* main's geo
  pc,              \* where main is
  exit_status,     \* the process exit status, NoExit while running
  stderr,          \* what main wrote to stderr
  stdout,          \* what main printed about results
  submitted,       \* how many futures main has submitted
  state,           \* per invocation: Idle, Running, Retrying, Succeeded, Exhausted, Raised
  attempt,         \* per invocation: run's loop variable
  calls,           \* per invocation: how many times _run_browser was called
  outcomes,        \* per invocation: how each attempt ended, "return" or the error kind
  slept,           \* per invocation: the delays given to time.sleep
  log,             \* per invocation: what run printed
  future,          \* per invocation: the future's result once done
  collected,       \* the invocations as_completed has yielded
  all_leads,       \* main's all_leads
  source_results,  \* main's source_results
  unique_leads,    \* main's unique_leads
  csv_file,        \* the rows of the CSV written
  d_leads,         \* a call of deduplicate on its own: the field values its argument
                   \* leads has when the call begins
  d_heap,          \* the Lead objects there are: per reference, the object's fields
  d_input,         \* the list leads itself: the references it holds, in order
  d_refs,          \* the list unique itself: the references it holds, in order
  d_unique,        \* that call's list unique, by the field values of its Leads
  d_next,          \* the position in d_leads of the lead its loop takes next
  d_origin,        \* per bucket: the positions of the leads it absorbed, its first lead first
  d_result,        \* [value |-> what the call returned], None before it returns
  p_raw,           \* a call of normalize_phone on its own: its argument raw
  p_once,          \* [value |-> what normalize_phone(p_raw) returned], None before
  p_twice,         \* [value |-> what normalize_phone of that result returned], None before
  b_pc,            \* a call of run on its own: where it is, in run or in _run_browser
  b_attempt,       \* that call's loop variable attempt
  b_exc,           \* the step of _run_browser that raised the exception propagating, or "none"
  b_leads,         \* the leads _scrape has built
  b_drivers,       \* the attempts whose Playwright driver is running
  b_browsers,      \* the attempts whose browser is open
  b_contexts,      \* the attempts whose browser context is open
  b_result,        \* [value |-> what run returned], None before it returns
  e_pc,            \* per lead being enriched: where its _fetch_phone is
  e_phone,         \* per lead being enriched: what its _fetch_phone returns
  e_drivers,       \* the leads whose _fetch_phone has a Playwright driver running
  e_browsers,      \* the leads whose _fetch_phone has its browser open
  g_query,         \* calls of geocode_city on their own: per call, its argument city_str
  g_pc,            \* per call: where it is
  g_cache,         \* per call: its local dict cache
  g_ret,           \* per call: what it returned or that it raised, None before
  g_known,         \* per call: the query strings resolved and saved before it began
  g_asked,         \* per call: whether it called the external geocoder
  g_saved,         \* per query string: the record first saved for it
  g_overlapped,    \* whether a call began while another was between its load and its save
  s_rows           \* write_leads_csv on what that call of deduplicate returned:
                   \* [value |-> the rows written], None before

vars == << city_str, sequential, sources, max_retries, cacheFile, geo, pc,
           exit_status, stderr, stdout, submitted, state, attempt, calls,
           outcomes, slept, log, future, collected, all_leads, source_results,
           unique_leads, csv_file, d_leads, d_unique, d_next, d_origin,
           d_result, d_heap, d_input, d_refs,
           p_raw, p_once, p_twice,
           b_pc, b_attempt, b_exc, b_leads, b_drivers, b_browsers, b_contexts,
           b_result, e_pc, e_phone, e_drivers, e_browsers,
           g_query, g_pc, g_cache, g_ret, g_known, g_asked, g_saved,
           g_overlapped,
           s_rows >>

dedupVars == << d_leads, d_unique, d_next, d_origin, d_result,
               d_heap, d_input, d_refs >>

phoneVars == << p_raw, p_once, p_twice >>

browserVars == << b_pc, b_attempt, b_exc, b_leads, b_drivers, b_browsers,
                 b_contexts, b_result, e_pc, e_phone, e_drivers, e_browsers >>

geoVars == << g_query, g_pc, g_cache, g_ret, g_known, g_asked, g_saved,
             g_overlapped >>

sinkVars == << s_rows >>

\* the state of the calls made on their own
callVars == << dedupVars, phoneVars, browserVars, geoVars, sinkVars >>

argsVars == << city_str, sequential, sources, max_retries >>
mainVars == << cacheFile, geo, pc, exit_status, stderr, stdout, submitted,
               collected, all_leads, source_results, unique_leads, csv_file >>
workerVars == << state, attempt, calls, outcomes, slept, log, future >>

NoExit == 0 - 1
Invocations == 1..Len(sources)

\* the kinds of exception an attempt raises: a network, timeout or navigation
\* failure, or a programming error; all are subclasses of Exception
ErrorKinds == {"Transient", "Fatal"}

\* a handler that catches the transient failures only
CatchesTransientOnly(kind) == kind = "Transient"

\* "except Exception as e" in run
Catches(kind) == kind \in ErrorKinds

\* a loop that runs once too often
InRangeOffByOne(a, n) == a <= n

\* "for attempt in range(self.max_retries)"
InRange(a, n) == a < n

\* an index that wraps around instead of staying on the last delay
BackoffDelayWrap(a) == backoff_delays[(a % Len(backoff_delays)) + 1]

\* self.backoff_delays[min(attempt, len(self.backoff_delays) - 1)]
BackoffDelay(a) == backoff_delays[Min(a, Len(backoff_delays) - 1) + 1]

\* a test with <= in place of <
RetriesLeftInclusive(a, n) == a <= n - 1

\* a test that also holds on the last attempt
RetriesLeftAlways(a, n) == a < n

\* "if attempt < self.max_retries - 1"
RetriesLeft(a, n) == a < n - 1

\* what an attempt of the adapter of `source` may return
Returns(source) ==
  {SubSeq(Catalogue(source), 1, n) : n \in 0..Min(MaxLeads, Len(Catalogue(source)))}

RECURSIVE SumSeq(_)
SumSeq(s) == IF s = << >> THEN 0 ELSE Head(s) + SumSeq(Tail(s))

\* the time run_scraper measures: the time slept (an attempt itself takes
\* no modelled time)
Elapsed(i) == SumSeq(slept[i])

\* a pool that ignores --sequential
WorkersAll == Len(sources)

\* "workers = 1 if args.sequential else len(args.sources)"
Workers == IF sequential THEN 1 ELSE Len(sources)

Active == {i \in Invocations : state[i] \in {"Running", "Retrying"}}
Done(i) == state[i] \in {"Succeeded", "Exhausted", "Raised"}

\* an assignment in place of extend
ExtendReplace(all, leads) == leads

\* "all_leads.extend(leads)"
Extend(all, leads) == all \o leads

\* a loop that stops at the first completed future
AnyCollected == collected # {}

\* a loop that ends while one future has not been yielded
CollectedButOne == Cardinality(collected) + 1 >= Len(sources)

\* as_completed has yielded every future
AllCollected == collected = Invocations

\* a store that skips a source without leads
StoreResultSkipEmpty(results, source, leads, elapsed) ==
  IF leads = << >> THEN results
  ELSE [s \in DOMAIN results \cup {source} |->
          IF s = source THEN << leads, elapsed >> ELSE results[s]]

\* a store that keeps the newest entry only
StoreResultOnly(results, source, leads, elapsed) ==
  [s \in {source} |-> << leads, elapsed >>]

\* "source_results[source] = (leads, elapsed)"
StoreResult(results, source, leads, elapsed) ==
  [s \in DOMAIN results \cup {source} |->
     IF s = source THEN << leads, elapsed >> ELSE results[s]]

\* a test that never finds the aggregate empty
NeverEmpty(leads) == FALSE

\* "if not all_leads"
IsEmptyAggregate(leads) == leads = << >>

\* the statuses main exits with
GEOCODE_FAIL_STATUS == 1
NO_LEADS_STATUS == 0

\* the sequences over S of length 1..n
SeqsUpTo(S, n) == UNION {[1..k -> S] : k \in 1..n}

SourceNames == {ALL_SOURCES[k] : k \in 1..Len(ALL_SOURCES)}

\* the cache left by earlier runs
Caches == {EmptyCache,
           geocode_city(ASHBURN_VA, EmptyCache).file}

InitRest ==
  /\ geo = None
  /\ pc = "geocode"
  /\ exit_status = NoExit
  /\ stderr = << >>
  /\ stdout = << >>
  /\ submitted = 0
  /\ state = [i \in Invocations |-> "Idle"]
  /\ attempt = [i \in Invocations |-> 0]
  /\ calls = [i \in Invocations |-> 0]
  /\ outcomes = [i \in Invocations |-> << >>]
  /\ slept = [i \in Invocations |-> << >>]
  /\ log = [i \in Invocations |-> << >>]
  /\ future = [i \in Invocations |-> None]
  /\ collected = {}
  /\ all_leads = << >>
  /\ source_results = << >>
  /\ unique_leads = << >>
  /\ csv_file = None

\* no call of deduplicate on its own
NoDedupCall ==
  /\ d_leads = << >>
  /\ d_unique = << >>
  /\ d_next = 0
  /\ d_origin = << >>
  /\ d_result = None
  /\ d_heap = d_leads
  /\ d_input = [k \in 1..Len(d_leads) |-> k]
  /\ d_refs = << >>

\* no call of normalize_phone on its own
NoPhoneCall ==
  /\ p_raw = << >>
  /\ p_once = None
  /\ p_twice = None

\* no call of run on its own
NoBrowserRun ==
  /\ b_pc = "none"
  /\ b_attempt = 0
  /\ b_exc = "none"
  /\ b_leads = << >>
  /\ b_drivers = {}
  /\ b_browsers = {}
  /\ b_contexts = {}
  /\ b_result = None
  /\ e_pc = << >>
  /\ e_phone = << >>
  /\ e_drivers = {}
  /\ e_browsers = {}

\* no calls of geocode_city on their own
NoGeoCalls ==
  /\ g_query = << >>
  /\ g_pc = << >>
  /\ g_cache = << >>
  /\ g_ret = << >>
  /\ g_known = << >>
  /\ g_asked = << >>
  /\ g_saved = << >>
  /\ g_overlapped = FALSE

\* no call of write_leads_csv on its own
NoSinkCall == s_rows = None

Init ==
  /\ city_str \in Queries
  /\ sequential \in BOOLEAN
  /\ sources \in SeqsUpTo(SourceNames, MaxSources)
  /\ max_retries = MAX_RETRIES
  /\ cacheFile \in Caches
  /\ InitRest
  /\ NoDedupCall
  /\ NoPhoneCall
  /\ NoBrowserRun
  /\ NoGeoCalls
  /\ NoSinkCall

\* one scraper with any retry budget
InitRetry ==
  /\ city_str \in Queries
  /\ sequential \in BOOLEAN
  /\ sources \in SeqsUpTo(SourceNames, 1)
  /\ max_retries \in 1..MaxBudget
  /\ cacheFile \in Caches
  /\ InitRest
  /\ NoDedupCall
  /\ NoPhoneCall
  /\ NoBrowserRun
  /\ NoGeoCalls
  /\ NoSinkCall

(* main, lines 75-83: geocode the city, or report the error and exit 1 *)
Geocode ==
  /\ pc = "geocode"
  /\ LET r == geocode_city(city_str, cacheFile)
     IN  /\ cacheFile' = r.file
         /\ IF r.raised
            THEN /\ stderr' = Append(stderr, << "Error: Could not geocode city: ", city_str >>)
                 /\ exit_status' = GEOCODE_FAIL_STATUS
                 /\ pc' = "exited"
                 /\ geo' = geo
            ELSE /\ geo' = r.value
                 /\ pc' = "submit"
                 /\ UNCHANGED << stderr, exit_status >>
  /\ UNCHANGED << stdout, submitted, collected, all_leads, source_results,
                  unique_leads, csv_file >>
  /\ UNCHANGED argsVars
  /\ UNCHANGED callVars
  /\ UNCHANGED workerVars

(* main, lines 101-104: executor.submit(run_scraper, source, ...) for the next source *)
Submit ==
  /\ pc = "submit"
  /\ submitted' = submitted + 1
  /\ pc' = IF submitted + 1 = Len(sources) THEN "collect" ELSE "submit"
  /\ UNCHANGED << cacheFile, geo, exit_status, stderr, stdout, collected, all_leads,
                  source_results, unique_leads, csv_file >>
  /\ UNCHANGED argsVars
  /\ UNCHANGED callVars
  /\ UNCHANGED workerVars

\* run's loop reaches index a: the next attempt, or "return []" after the loop
EnterAttempt(i, a) ==
  IF InRange(a, max_retries)
  THEN /\ state' = [state EXCEPT ![i] = "Running"]
       /\ attempt' = [attempt EXCEPT ![i] = a]
       /\ calls' = [calls EXCEPT ![i] = @ + 1]
       /\ future' = future
  ELSE /\ state' = [state EXCEPT ![i] = "Exhausted"]
       /\ future' = [future EXCEPT ![i] =
                       [raised |-> FALSE, source |-> sources[i], leads |-> << >>,
                        elapsed |-> Elapsed(i)]]
       /\ UNCHANGED << attempt, calls >>

(* a pool worker takes the oldest queued work item: run_scraper builds the
   scraper and calls run, which makes its first attempt *)
StartTask(i) ==
  /\ i <= submitted
  /\ state[i] = "Idle"
  /\ \A j \in 1..(i - 1) : state[j] # "Idle"
  /\ Cardinality(Active) < Workers
  /\ EnterAttempt(i, 0)
  /\ UNCHANGED << outcomes, slept, log >>
  /\ UNCHANGED argsVars
  /\ UNCHANGED callVars
  /\ UNCHANGED mainVars

(* run, line 77: _run_browser returns; run returns its leads to run_scraper *)
AttemptReturns(i) ==
  /\ state[i] = "Running"
  /\ \E leads \in Returns(sources[i]) :
       future' = [future EXCEPT ![i] =
                    [raised |-> FALSE, source |-> sources[i], leads |-> leads,
                     elapsed |-> Elapsed(i)]]
  /\ state' = [state EXCEPT ![i] = "Succeeded"]
  /\ outcomes' = [outcomes EXCEPT ![i] = Append(@, "return")]
  /\ UNCHANGED << attempt, calls, slept, log >>
  /\ UNCHANGED argsVars
  /\ UNCHANGED callVars
  /\ UNCHANGED mainVars

(* run, lines 78-85: _run_browser raises; run sleeps before the next attempt
   or, on the last one, prints the failure, leaves the loop and returns [] *)
AttemptRaises(i) ==
  /\ state[i] = "Running"
  /\ \E kind \in ErrorKinds :
       /\ outcomes' = [outcomes EXCEPT ![i] = Append(@, kind)]
       /\ IF ~Catches(kind)
          THEN /\ state' = [state EXCEPT ![i] = "Raised"]
               /\ future' = [future EXCEPT ![i] = [raised |-> TRUE, kind |-> kind]]
               /\ UNCHANGED << attempt, calls, slept, log >>
          ELSE LET delay == BackoffDelay(attempt[i])
               IN  IF RetriesLeft(attempt[i], max_retries)
                   THEN /\ log' = [log EXCEPT ![i] =
                                     Append(@, << "retry", attempt[i] + 1, delay >>)]
                        /\ slept' = [slept EXCEPT ![i] = Append(@, delay)]
                        /\ state' = [state EXCEPT ![i] = "Retrying"]
                        /\ UNCHANGED << attempt, calls, future >>
                   ELSE /\ log' = [log EXCEPT ![i] =
                                     Append(@, << "failed", max_retries >>)]
                        /\ slept' = slept
                        /\ EnterAttempt(i, attempt[i] + 1)
  /\ UNCHANGED argsVars
  /\ UNCHANGED callVars
  /\ UNCHANGED mainVars

(* run, line 83: time.sleep(delay) ends and the loop goes on *)
SleepEnds(i) ==
  /\ state[i] = "Retrying"
  /\ EnterAttempt(i, attempt[i] + 1)
  /\ UNCHANGED << outcomes, slept, log >>
  /\ UNCHANGED argsVars
  /\ UNCHANGED callVars
  /\ UNCHANGED mainVars

(* main, lines 105-108: as_completed yields a finished future *)
Collect(i) ==
  /\ pc = "collect"
  /\ i \notin collected
  /\ Done(i)
  /\ collected' = collected \cup {i}
  /\ IF future[i].raised
     THEN \* future.result() raises again in main: a traceback, exit status 1
          /\ stderr' = Append(stderr, << "Traceback", future[i].kind >>)
          /\ exit_status' = 1
          /\ pc' = "exited"
          /\ UNCHANGED << source_results, all_leads >>
     ELSE /\ source_results' = StoreResult(source_results, future[i].source,
                                           future[i].leads, future[i].elapsed)
          /\ all_leads' = Extend(all_leads, future[i].leads)
          /\ UNCHANGED << stderr, exit_status, pc >>
  /\ UNCHANGED << cacheFile, geo, stdout, submitted, unique_leads, csv_file >>
  /\ UNCHANGED argsVars
  /\ UNCHANGED callVars
  /\ UNCHANGED workerVars

(* main, line 105 and the end of the with block: every future was yielded *)
Join ==
  /\ pc = "collect"
  /\ AllCollected
  /\ pc' = "joined"
  /\ UNCHANGED << cacheFile, geo, exit_status, stderr, stdout, submitted, collected,
                  all_leads, source_results, unique_leads, csv_file >>
  /\ UNCHANGED argsVars
  /\ UNCHANGED callVars
  /\ UNCHANGED workerVars

(* main, lines 110-112: nothing was found *)
NoLeads ==
  /\ pc = "joined"
  /\ IsEmptyAggregate(all_leads)
  /\ stdout' = Append(stdout, [kind |-> "no_leads"])
  /\ exit_status' = NO_LEADS_STATUS
  /\ pc' = "exited"
  /\ UNCHANGED << cacheFile, geo, stderr, submitted, collected, all_leads,
                  source_results, unique_leads, csv_file >>
  /\ UNCHANGED argsVars
  /\ UNCHANGED callVars
  /\ UNCHANGED workerVars

(* main, line 115 *)
Deduplicate ==
  /\ pc = "joined"
  /\ ~IsEmptyAggregate(all_leads)
  /\ unique_leads' = deduplicate(all_leads)
  /\ pc' = "write"
  /\ UNCHANGED << cacheFile, geo, exit_status, stderr, stdout, submitted, collected,
                  all_leads, source_results, csv_file >>
  /\ UNCHANGED argsVars
  /\ UNCHANGED callVars
  /\ UNCHANGED workerVars

(* main, line 118 *)
WriteCsv ==
  /\ pc = "write"
  /\ csv_file' = CsvRows(unique_leads)
  /\ pc' = "summary"
  /\ UNCHANGED << cacheFile, geo, exit_status, stderr, stdout, submitted, collected,
                  all_leads, source_results, unique_leads >>
  /\ UNCHANGED argsVars
  /\ UNCHANGED callVars
  /\ UNCHANGED workerVars

\* the number of leads with a non-empty phone
WithPhone(leads) == Cardinality({k \in 1..Len(leads) : leads[k].phone # << >>})

\* a summary that leaves out the sources without leads
RECURSIVE SummaryLinesSkipEmpty(_)
SummaryLinesSkipEmpty(srcs) ==
  IF srcs = << >> THEN << >>
  ELSE LET source == Head(srcs)
       IN  IF source \notin DOMAIN source_results
              \/ source_results[source][1] = << >>
           THEN SummaryLinesSkipEmpty(Tail(srcs))
           ELSE << [kind |-> "source", source |-> source,
                    leads |-> Len(source_results[source][1]),
                    with_phone |-> WithPhone(source_results[source][1]),
                    elapsed |-> source_results[source][2]] >>
                \o SummaryLinesSkipEmpty(Tail(srcs))

\* main, lines 123-128: the lines of the summary table, one per element of
\* args.sources that has a result
RECURSIVE SummaryLines(_)
SummaryLines(srcs) ==
  IF srcs = << >> THEN << >>
  ELSE LET source == Head(srcs)
       IN  IF source \notin DOMAIN source_results THEN SummaryLines(Tail(srcs))
           ELSE << [kind |-> "source", source |-> source,
                    leads |-> Len(source_results[source][1]),
                    with_phone |-> WithPhone(source_results[source][1]),
                    elapsed |-> source_results[source][2]] >>
                \o SummaryLines(Tail(srcs))

(* main, lines 120-132: the summary table; main returns *)
Summary ==
  /\ pc = "summary"
  /\ stdout' = stdout \o SummaryLines(sources)
                 \o << [kind |-> "total", unique |-> Len(unique_leads),
                        with_phone |-> WithPhone(unique_leads)] >>
  /\ exit_status' = 0
  /\ pc' = "exited"
  /\ UNCHANGED << cacheFile, geo, stderr, submitted, collected, all_leads,
                  source_results, unique_leads, csv_file >>
  /\ UNCHANGED argsVars
  /\ UNCHANGED callVars
  /\ UNCHANGED workerVars

WorkerStep(i) ==
  /\ i \in Invocations
  /\ (StartTask(i) \/ AttemptReturns(i) \/ AttemptRaises(i) \/ SleepEnds(i))

Next ==
  \/ Geocode
  \/ Submit
  \/ \E i \in Invocations : StartTask(i)
  \/ \E i \in Invocations : AttemptReturns(i)
  \/ \E i \in Invocations : AttemptRaises(i)
  \/ \E i \in Invocations : SleepEnds(i)
  \/ \E i \in Invocations : Collect(i)
  \/ Join
  \/ NoLeads
  \/ Deduplicate
  \/ WriteCsv
  \/ Summary

Spec == Init /\ [][Next]_vars

SpecRetry == InitRetry /\ [][Next]_vars

\* the fan-out of main: submitting, collecting, joining
FanOutStep == Submit \/ (\E i \in Invocations : Collect(i)) \/ Join

\* every thread that can take a step eventually takes one: main submits and
\* collects, a pool worker runs its work item, an attempt returns or raises,
\* a sleep ends
Fairness ==
  /\ WF_vars(FanOutStep)
  /\ \A i \in 1..MaxSources : WF_vars(WorkerStep(i))

FairSpecRetry == InitRetry /\ [][Next]_vars /\ Fairness

(* ------------------------------------------------------------------ *)
(* A call of deduplicate on its own (utils/dedup.py)                    *)
(* ------------------------------------------------------------------ *)

\* the leads given to deduplicate: three names in Ashburn of which the third
\* is 0.875-similar to the first and to the second while these two are only
\* 0.75-similar; the first name again in another city; a name that is a
\* prefix of the three; a name that normalizes to the empty string; two
\* names whose ratio is 0.857 taken one way round and 0.571 the other
IRONCLUB_MB ==
  MkLead(<< "I", "r", "o", "n", "c", "l", "u", "b" >>,
         << >>,
         << "A", "s", "h", "b", "u", "r", "n" >>, << "V", "A" >>,
         << >>, << >>,
         << "G", "y", "m" >>,
         << "m", "i", "n", "d", "b", "o", "d", "y" >>)

IRONCLAN_CF ==
  MkLead(<< "i", "r", "o", "n", "c", "l", "a", "n" >>,
         << "1", " ", "M", "a", "i", "n" >>,
         << "a", "s", "h", "b", "u", "r", "n" >>, << "v", "a" >>,
         << "5" >>, << >>,
         << >>,
         << "c", "r", "o", "s", "s", "f", "i", "t" >>)

IRONCLAB_GM ==
  MkLead(<< "I", "r", "o", "n", "c", "l", "a", "b" >>,
         << >>,
         << "A", "s", "h", "b", "u", "r", "n" >>, << "V", "i", "r", "g", "i", "n", "i", "a" >>,
         << "7" >>, << "w" >>,
         << "Y", "o", "g", "a" >>,
         << "g", "o", "o", "g", "l", "e", "_", "m", "a", "p", "s" >>)

IRONCLUB_RESTON ==
  MkLead(<< "I", "r", "o", "n", "c", "l", "u", "b" >>,
         << "2", " ", "O", "a", "k" >>,
         << "R", "e", "s", "t", "o", "n" >>, << "V", "A" >>,
         << >>, << >>,
         << >>,
         << "c", "r", "o", "s", "s", "f", "i", "t" >>)

IRON_MB ==
  MkLead(<< "I", "r", "o", "n" >>,
         << "3", " ", "E", "l", "m" >>,
         << " ", "A", "s", "h", "b", "u", "r", "n" >>, << "V", "A" >>,
         << "9" >>, << >>,
         << >>,
         << "m", "i", "n", "d", "b", "o", "d", "y" >>)

THE_GYM_CF ==
  MkLead(<< "T", "h", "e", " ", "G", "y", "m" >>,
         << >>,
         << "A", "s", "h", "b", "u", "r", "n" >>, << "V", "A" >>,
         << >>, << >>,
         << "G", "y", "m" >>,
         << "c", "r", "o", "s", "s", "f", "i", "t" >>)

MAMAMIA_MB ==
  MkLead(<< "M", "a", "m", "a", "m", "i", "a" >>,
         << >>,
         << "A", "s", "h", "b", "u", "r", "n" >>, << "V", "A" >>,
         << >>, << >>,
         << >>,
         << "m", "i", "n", "d", "b", "o", "d", "y" >>)

MIAMAMA_CF ==
  MkLead(<< "M", "i", "a", "m", "a", "m", "a" >>,
         << >>,
         << "A", "s", "h", "b", "u", "r", "n" >>, << "V", "A" >>,
         << >>, << >>,
         << >>,
         << "c", "r", "o", "s", "s", "f", "i", "t" >>)

DedupPool == {IRONCLUB_MB, IRONCLAN_CF, IRONCLAB_GM, IRONCLUB_RESTON,
              IRON_MB, THE_GYM_CF, MAMAMIA_MB, MIAMAMA_CF}

\* the longest list given to deduplicate
MaxInput == 3

InitDedup ==
  /\ city_str = ASHBURN_VA
  /\ sequential = FALSE
  /\ sources = << MINDBODY >>
  /\ max_retries = MAX_RETRIES
  /\ cacheFile = EmptyCache
  /\ InitRest
  /\ d_leads \in {<< >>} \cup SeqsUpTo(DedupPool, MaxInput)
  /\ d_unique = << >>
  /\ d_next = 1
  /\ d_origin = << >>
  /\ d_result = None
  /\ d_heap = d_leads
  /\ d_input = [k \in 1..Len(d_leads) |-> k]
  /\ d_refs = << >>
  /\ NoPhoneCall
  /\ NoBrowserRun
  /\ NoGeoCalls
  /\ NoSinkCall

(* deduplicate, lines 99-120: one iteration of "for lead in leads" *)
DedupIterate ==
  /\ d_result = None
  /\ d_input # << >>
  /\ d_next <= Len(d_input)
  /\ LET lead == d_heap[d_input[d_next]]
     IN  \E i \in {FirstMatch(d_unique, lead, ThresholdNum, ThresholdDen)} :
           \E after \in {IF i = 0
                          THEN [heap |-> d_heap,
                                refs |-> Append(d_refs, d_input[d_next])]
                          ELSE Install(d_heap, d_refs, i, d_input[d_next])} :
             /\ d_unique' = DedupStep(d_unique, lead, ThresholdNum, ThresholdDen)
             /\ d_heap' = after.heap
             /\ d_refs' = after.refs
             /\ d_origin' = IF i = 0 THEN Append(d_origin, << d_next >>)
                            ELSE [d_origin EXCEPT ![i] = Append(@, d_next)]
  /\ d_next' = d_next + 1
  /\ UNCHANGED << d_leads, d_input, d_result >>
  /\ UNCHANGED argsVars
  /\ UNCHANGED mainVars
  /\ UNCHANGED workerVars
  /\ UNCHANGED phoneVars
  /\ UNCHANGED browserVars
  /\ UNCHANGED geoVars
  /\ UNCHANGED sinkVars

(* deduplicate, lines 94-95 and 122: "return []" for no leads, "return unique" *)
DedupReturn ==
  /\ d_result = None
  /\ d_input = << >> \/ d_next > Len(d_input)
  /\ d_result' = [value |-> IF d_input = << >> THEN << >> ELSE d_unique]
  /\ UNCHANGED << d_leads, d_unique, d_next, d_origin, d_heap, d_input, d_refs >>
  /\ UNCHANGED argsVars
  /\ UNCHANGED mainVars
  /\ UNCHANGED workerVars
  /\ UNCHANGED phoneVars
  /\ UNCHANGED browserVars
  /\ UNCHANGED geoVars
  /\ UNCHANGED sinkVars

NextDedup == DedupIterate \/ DedupReturn

SpecDedup == InitDedup /\ [][NextDedup]_vars

(* ------------------------------------------------------------------ *)
(* Properties                                                           *)
(* ------------------------------------------------------------------ *)

\* every attempt of invocation i so far raised, and the budget is used up
AllAttemptsFailed(i) ==
  /\ Len(outcomes[i]) = max_retries
  /\ \A k \in 1..Len(outcomes[i]) : outcomes[i][k] \in ErrorKinds

\* how often x occurs in the sequence s
Count(s, x) == Cardinality({k \in 1..Len(s) : s[k] = x})

\* how often x occurs in the leads returned by the invocations in S
RECURSIVE CountReturned(_, _)
CountReturned(S, x) ==
  IF S = {} THEN 0
  ELSE LET j == CHOOSE k \in S : TRUE
       IN  (IF future[j] # None /\ ~future[j].raised
            THEN Count(future[j].leads, x) ELSE 0)
           + CountReturned(S \ {j}, x)

AllLeads == UNION {{Catalogue(src)[k] : k \in 1..Len(Catalogue(src))} : src \in SourceNames}

\* main is past the fan-out and its join
Joined == pc \in {"joined", "write", "summary"} \/ (pc = "exited" /\ AllCollected)

\* C1: one call of run makes at most max_retries attempts, whatever the
\* attempts do, and none after the first attempt that returns (an attempt
\* that returns no lead included): a return is the last outcome and the
\* number of _run_browser calls stays where it was
C1_AttemptsBounded ==
  \A i \in Invocations :
    /\ calls[i] <= max_retries
    /\ Len(outcomes[i]) <= calls[i]
    /\ \A k \in 1..Len(outcomes[i]) :
         outcomes[i][k] = "return" =>
           /\ k = Len(outcomes[i])
           /\ calls[i] = k
           /\ state[i] = "Succeeded"

C1_Witness ==
  \E i \in Invocations :
    /\ max_retries = MAX_RETRIES
    /\ outcomes[i] = << "Transient", "return" >>
    /\ future[i].leads = << >>
    /\ pc = "exited"

\* C2: when each of the max_retries attempts raised, run is Exhausted, has
\* returned the empty list, and nothing was raised to run_scraper or to main
C2_ExhaustedReturnsEmpty ==
  \A i \in Invocations :
    AllAttemptsFailed(i) =>
      /\ state[i] = "Exhausted"
      /\ ~future[i].raised
      /\ future[i].leads = << >>
      /\ (i \in collected => stderr = << >> /\ exit_status \in {NoExit, 0})

C2_Witness ==
  \E i \in Invocations :
    /\ max_retries = MAX_RETRIES
    /\ outcomes[i] = << "Transient", "Fatal", "Transient" >>
    /\ state[i] = "Exhausted"
    /\ i \in collected
    /\ pc = "exited"

\* C3: failure isolation, sequential or parallel: when one adapter failed on
\* all its attempts and the others succeeded, then after the join all_leads
\* holds exactly the leads the others returned (as a multiset), the run was
\* not aborted, and the process exits with status 0
C3_FailureIsolation ==
  /\ geo # None => exit_status \in {NoExit, 0} /\ stderr = << >>
  /\ Joined =>
       \A i \in Invocations :
         (/\ AllAttemptsFailed(i)
          /\ \A j \in Invocations \ {i} : state[j] = "Succeeded")
         => /\ \A x \in AllLeads :
                 Count(all_leads, x) = CountReturned(Invocations \ {i}, x)
            /\ \A k \in 1..Len(all_leads) : all_leads[k] \in AllLeads
            /\ (pc = "exited" => exit_status = 0)

C3_Witness ==
  /\ pc = "exited"
  /\ ~sequential
  /\ Len(sources) = 2
  /\ AllAttemptsFailed(1)
  /\ state[2] = "Succeeded"
  /\ future[2].leads # << >>
  /\ all_leads = future[2].leads
  /\ exit_status = 0

\* C4: an attempt that raises a programming error is the last attempt: no
\* attempt and no backoff wait follows it, and run is Exhausted at once
C4_FatalNotRetried ==
  \A i \in Invocations :
    \A k \in 1..Len(outcomes[i]) :
      outcomes[i][k] = "Fatal" =>
        /\ calls[i] = k
        /\ Len(slept[i]) < k
        /\ state[i] = "Exhausted"

\* the delay the schedule gives for the k-th wait
ScheduledDelay(k) ==
  IF k <= Len(backoff_delays) THEN backoff_delays[k]
  ELSE backoff_delays[Len(backoff_delays)]

\* C5: the k-th wait follows the k-th failed attempt and lasts
\* backoff_delays[min(k-1, len-1)]: with [5, 15, 30] the waits never
\* decrease and every wait past the third lasts 30
C5_BackoffSchedule ==
  \A i \in Invocations :
    \A k \in 1..Len(slept[i]) :
      /\ k <= Len(outcomes[i])
      /\ outcomes[i][k] \in ErrorKinds
      /\ slept[i][k] = ScheduledDelay(k)
      /\ (k > 1 => slept[i][k - 1] <= slept[i][k])
      /\ (k > 3 => slept[i][k] = 30)

C5_Witness ==
  \E i \in Invocations :
    /\ slept[i] = << 5, 15, 30, 30 >>
    /\ state[i] = "Running"

AllowedTransitions ==
  { << "Idle", "Running" >>, << "Running", "Succeeded" >>,
    << "Running", "Retrying" >>, << "Retrying", "Running" >>,
    << "Running", "Exhausted" >> }

\* C6: an invocation changes state only along Idle -> Running,
\* Running -> Succeeded, Running -> Retrying, Retrying -> Running and
\* Running -> Exhausted, so that nothing leaves Succeeded or Exhausted; and
\* a running invocation reaches Succeeded or Exhausted
C6_StateMachine ==
  /\ [][\A i \in Invocations :
          state'[i] # state[i] => << state[i], state'[i] >> \in AllowedTransitions]_vars
  /\ \A i \in 1..MaxSources :
       (i \in Invocations /\ state[i] = "Running")
         ~> (i \in Invocations /\ state[i] \in {"Succeeded", "Exhausted"})

C6_Witness ==
  \E i \in Invocations :
    /\ state[i] = "Succeeded"
    /\ Len(slept[i]) >= 2

\* the geocoder knows no place for the query; the cache file of earlier runs
\* holds none either, since geocode_city caches resolved queries only
Unresolvable == Nominatim(city_str) = None

\* C7: when the location does not resolve, no future is submitted, no
\* invocation leaves Idle, and main exits with a status other than 0
C7_GeocodeFailure ==
  Unresolvable =>
    /\ pc \in {"geocode", "exited"}
    /\ submitted = 0
    /\ \A i \in Invocations : state[i] = "Idle" /\ calls[i] = 0
    /\ (pc = "exited" => exit_status # 0 /\ exit_status # NoExit /\ stderr # << >>)

C7_Witness ==
  /\ Unresolvable
  /\ pc = "exited"
  /\ exit_status = 1
  /\ stderr = << << "Error: Could not geocode city: ", city_str >> >>

\* every invocation is finished and none returned a lead
AllOutcomesEmpty ==
  \A i \in Invocations :
    /\ state[i] \in {"Succeeded", "Exhausted"}
    /\ future[i].leads = << >>

\* C8: when every adapter ends without a lead (succeeded with none, or
\* exhausted), the run is a success without results: main prints the "no
\* leads" message and exits with status 0, never with an error status
C8_NoResultsSuccess ==
  (Joined /\ AllOutcomesEmpty) =>
    /\ exit_status \in {NoExit, 0}
    /\ stderr = << >>
    /\ (pc = "exited" => exit_status = 0 /\ stdout = << [kind |-> "no_leads"] >>)

C8_Witness ==
  /\ pc = "exited"
  /\ Len(sources) = 2
  /\ state[1] = "Exhausted"
  /\ state[2] = "Succeeded"
  /\ AllOutcomesEmpty
  /\ exit_status = 0

\* C9: after the join, source_results has one entry for each selected source
\* and no other, the leads and the elapsed time of an invocation of that
\* source, exhausted or not, in whatever order the futures completed
C9_OneOutcomePerSource ==
  Joined =>
    /\ DOMAIN source_results = {sources[i] : i \in Invocations}
    /\ \A src \in DOMAIN source_results :
         \E i \in Invocations :
           /\ sources[i] = src
           /\ source_results[src] = << future[i].leads, future[i].elapsed >>

C9_Witness ==
  /\ pc = "joined"
  /\ Len(sources) = 2
  /\ sources[1] # sources[2]
  /\ state[1] = "Exhausted"
  /\ state[2] = "Succeeded"
  /\ source_results[sources[1]] = << << >>, 20 >>
  /\ source_results[sources[2]][1] # << >>

\* stdout has, for each selected source, its line of the summary table: the
\* lead count, the count with a phone, the elapsed time
SummaryPrinted ==
  \A i \in Invocations :
    \E k \in 1..Len(stdout) :
      /\ stdout[k].kind = "source"
      /\ stdout[k].source = sources[i]
      /\ sources[i] \in DOMAIN source_results
      /\ stdout[k].leads = Len(source_results[sources[i]][1])
      /\ stdout[k].with_phone = WithPhone(source_results[sources[i]][1])
      /\ stdout[k].elapsed = source_results[sources[i]][2]

\* C10 as stated: a run whose location resolved has printed the summary of
\* every selected source when it exits
C10_SummaryAlways ==
  (pc = "exited" /\ geo # None) => SummaryPrinted

\* C10 amended: a run whose location resolved and whose all_leads is not
\* empty has printed, when it exits, the summary of every selected source,
\* exhausted sources and sources without leads included; a run whose
\* all_leads is empty exits with the "no leads" message alone
C10_SummaryWhenLeads ==
  (pc = "exited" /\ geo # None) =>
    IF all_leads # << >> THEN SummaryPrinted
    ELSE stdout = << [kind |-> "no_leads"] >>

C10_Witness ==
  /\ pc = "exited"
  /\ Len(sources) = 2
  /\ state[1] = "Exhausted"
  /\ state[2] = "Succeeded"
  /\ all_leads # << >>
  /\ SummaryPrinted

\* C11 as stated: what main records of an adapter that failed on all its
\* attempts (the tuple run_scraper returns, the source name apart) differs
\* from what it records of an adapter that succeeded without a lead
C11_OutcomeTellsStatus ==
  \A i \in Invocations : \A j \in Invocations :
    (/\ i \in collected /\ j \in collected
     /\ state[i] = "Exhausted"
     /\ state[j] = "Succeeded" /\ future[j].leads = << >>)
    => << future[i].leads, future[i].elapsed >> # << future[j].leads, future[j].elapsed >>

\* C12: one future is submitted per element of args.sources and each runs
\* its scraper once; with --sequential at most one invocation is running or
\* sleeping between attempts at any instant, and without it never more than
\* there are selected sources
C12_DispatchAndConcurrency ==
  /\ submitted <= Len(sources)
  /\ (geo # None /\ pc # "submit") => submitted = Len(sources)
  /\ \A i \in Invocations : state[i] # "Idle" => i <= submitted
  /\ Joined => \A i \in Invocations : Done(i) /\ i \in collected
  /\ sequential => Cardinality(Active) <= 1
  /\ Cardinality(Active) <= Len(sources)

C12_Witness ==
  /\ sequential
  /\ Len(sources) = 2
  /\ submitted = 2
  /\ state[1] = "Retrying"
  /\ state[2] = "Idle"

\* the injective sequences over S of full length: the orders of completion
Orders(S) ==
  {f \in [1..Cardinality(S) -> S] : \A a, b \in DOMAIN f : f[a] = f[b] => a = b}

\* the leads returned by the invocations of order, one after the other
RECURSIVE ConcatReturned(_)
ConcatReturned(order) ==
  IF order = << >> THEN << >>
  ELSE future[Head(order)].leads \o ConcatReturned(Tail(order))

\* C13: whatever the order in which the futures complete, all_leads is the
\* concatenation, in some order of the adapters, of the lead sequences the
\* collected adapters returned: each adapter's leads stay together and in
\* the adapter's order, and after the join every lead occurs in all_leads as
\* often as the adapters returned it
C13_AggregateIsUnion ==
  /\ \E order \in Orders(collected) : all_leads = ConcatReturned(order)
  /\ Joined => \A x \in AllLeads :
                 Count(all_leads, x) = CountReturned(Invocations, x)

C13_Witness ==
  /\ pc = "joined"
  /\ ~sequential
  /\ Len(sources) = 2
  /\ sources[1] # sources[2]
  /\ Len(future[1].leads) = 2
  /\ Len(future[2].leads) = 2
  /\ all_leads = future[2].leads \o future[1].leads

\* the buckets of a list, as an unordered set of full field contents
AsSet(seq) == {seq[k] : k \in 1..Len(seq)}

\* the list s taken in the order given
Permuted(s, order) == [k \in 1..Len(s) |-> s[order[k]]]

\* C14 as stated: deduplicate returns the same set of buckets, field by
\* field, for every permutation of its input
C14_OrderIndependent ==
  d_result # None =>
    \A order \in Orders(1..Len(d_leads)) :
      AsSet(deduplicate(Permuted(d_leads, order))) = AsSet(d_result.value)

\* C15: deduplicate applied to its own result returns it unchanged: the same
\* buckets with the same fields in the same order
C15_Idempotent ==
  d_result # None => deduplicate(d_result.value) = d_result.value

C15_Witness ==
  /\ d_result # None
  /\ Len(d_leads) = 3
  /\ Len(d_result.value) = 2
  /\ \E i \in 1..2 : Len(d_origin[i]) = 2

\* the location key of a lead: its city lowercased and trimmed, its state in
\* canonical form
LocationKey(lead) == << Strip(Lower(lead.city)), _normalize_state(lead.state) >>

\* two normalized names are exact, similar or containment-related
NamesRelated(a, b) ==
  /\ a # << >>
  /\ b # << >>
  /\ \/ a = b
     \/ RatioAtLeast(a, b, ThresholdNum, ThresholdDen)
     \/ Len(a) <= Len(b) /\ Len(a) >= 4 /\ StartsWith(b, a)
     \/ Len(b) <= Len(a) /\ Len(b) >= 4 /\ StartsWith(a, b)

\* the provenance tags of a lead, in the order its source field lists them
TagList(lead) ==
  LET parts == SplitComma(lead.source)
  IN  [k \in 1..Len(parts) |-> Strip(parts[k])]

\* the bucket's provenance is the sorted, duplicate-free union of the tags of x and y
IsSortedUnion(bucket, x, y) ==
  LET tags == TagList(bucket)
  IN  /\ \A k \in 1..(Len(tags) - 1) : StrLess(tags[k], tags[k + 1])
      /\ AsSet(tags) = AsSet(TagList(x)) \cup AsSet(TagList(y))

\* C16 as stated: two leads with equal location keys whose normalized names
\* are non-empty and equal, or at least 0.85 similar, or one (of length 4 or
\* more) a prefix of the other, come out of deduplicate as one bucket with
\* the sorted union of their provenance tags
C16_MatchingPairMerges ==
  (/\ d_result # None
   /\ Len(d_leads) = 2
   /\ LocationKey(d_leads[1]) = LocationKey(d_leads[2])
   /\ NamesRelated(_normalize(d_leads[1].name), _normalize(d_leads[2].name)))
  => /\ Len(d_result.value) = 1
     /\ IsSortedUnion(d_result.value[1], d_leads[1], d_leads[2])

\* C17: the leads absorbed into one bucket all have the same location key,
\* which is also the bucket's, however alike their names are; and a state's
\* full name and its two-letter abbreviation, in any case, give the same key
C17_LocationKeysNeverMix ==
  /\ \A b \in 1..Len(d_unique) :
       \A k \in 1..Len(d_origin[b]) :
         LocationKey(d_leads[d_origin[b][k]]) = LocationKey(d_unique[b])
  /\ \A p \in STATE_ABBREV :
       /\ _normalize_state(p[2]) = Lower(p[1])
       /\ _normalize_state(p[1]) = Lower(p[1])
       /\ _normalize_state(Upper(p[2])) = Lower(p[1])
       /\ _normalize_state(Lower(p[1])) = Lower(p[1])

C17_Witness ==
  /\ d_result # None
  /\ d_leads = << IRONCLUB_MB, IRONCLUB_RESTON, IRONCLAB_GM >>
  /\ d_leads[1].name = d_leads[2].name
  /\ d_leads[1].state # d_leads[3].state
  /\ d_origin = << << 1, 3 >>, << 2 >> >>

\* the fields of a lead that a merge fills by precedence
MergedFields == {"name", "address", "city", "state", "phone", "website", "type"}

\* C18: in every step of deduplicate, each of the seven fields of the bucket
\* the incoming lead is merged into is the bucket's previous value when that
\* was non-empty and the incoming lead's value otherwise; and no non-empty
\* field of any bucket ever changes
C18_MergePrecedence ==
  [][\A b \in 1..Len(d_unique) :
       \A f \in MergedFields :
         /\ d_unique[b][f] # << >> => d_unique'[b][f] = d_unique[b][f]
         /\ d_origin'[b] # d_origin[b] =>
              d_unique'[b][f] = IF d_unique[b][f] # << >> THEN d_unique[b][f]
                                ELSE d_leads[d_next][f]]_vars

C18_Witness ==
  /\ d_next = 3
  /\ d_origin = << << 1, 2 >> >>
  /\ d_leads[1].phone = << >>
  /\ d_leads[2].phone # << >>
  /\ d_unique[1].phone = d_leads[2].phone
  /\ d_leads[2].type # << >>
  /\ d_leads[1].type # << >>
  /\ d_leads[2].type # d_leads[1].type
  /\ d_unique[1].type = d_leads[1].type

\* the buckets that the lead the loop takes next duplicates
Matching ==
  {b \in 1..Len(d_unique) :
     IsDuplicate(d_leads[d_next], d_unique[b], ThresholdNum, ThresholdDen)}

\* C19: an iteration of deduplicate changes at most one bucket: the first,
\* in insertion order, that the incoming lead duplicates, which becomes the
\* merge of the two, while every other bucket, later matching ones included,
\* stays as it is; when no bucket matches, the lead itself is appended as
\* one new bucket and the existing buckets stay as they are
C19_OneBucketPerLead ==
  [][d_next' # d_next =>
       IF Matching = {}
       THEN d_unique' = Append(d_unique, d_leads[d_next])
       ELSE LET first == CHOOSE b \in Matching : \A c \in Matching : b <= c
            IN  /\ Len(d_unique') = Len(d_unique)
                /\ d_unique'[first] = _merge_leads(d_unique[first], d_leads[d_next])
                /\ \A b \in 1..Len(d_unique) :
                     b # first => d_unique'[b] = d_unique[b]]_vars

C19_Witness ==
  /\ d_next = 4
  /\ d_origin = << << 1, 3 >>, << 2 >> >>
  /\ d_unique[1] # d_leads[1]
  /\ d_unique[2] = d_leads[2]
  /\ IsDuplicate(d_leads[3], d_leads[2], ThresholdNum, ThresholdDen)

\* the leads of d_leads at the given positions, merged one after the other
RECURSIVE MergedFrom(_)
MergedFrom(positions) ==
  IF Len(positions) = 1 THEN d_leads[positions[1]]
  ELSE _merge_leads(MergedFrom(SubSeq(positions, 1, Len(positions) - 1)),
                    d_leads[positions[Len(positions)]])

\* C20: the buckets stand in the order in which their first leads occur in
\* the input: each bucket is the merge of the leads it absorbed, its first
\* lead comes later in the input than the first lead of every bucket before
\* it, an iteration never removes or moves a bucket, and deduplicate
\* returns the buckets in that order
C20_FirstSeenOrder ==
  /\ [](/\ Len(d_origin) = Len(d_unique)
        /\ \A b \in 1..Len(d_unique) : d_unique[b] = MergedFrom(d_origin[b])
        /\ \A b \in 1..Len(d_unique) : \A c \in 1..Len(d_unique) :
             b < c => d_origin[b][1] < d_origin[c][1]
        /\ (d_result # None /\ d_leads # << >>) => d_result.value = d_unique)
  /\ [][/\ Len(d_unique') >= Len(d_unique)
         /\ \A b \in 1..Len(d_unique) : d_origin'[b][1] = d_origin[b][1]]_vars

C20_Witness ==
  /\ d_result # None
  /\ Len(d_result.value) = 2
  /\ d_origin = << << 1, 3 >>, << 2 >> >>
  /\ d_result.value[1] # d_leads[1]
  /\ d_result.value[2] = d_leads[2]

\* the tags of the leads of d_leads at the given positions
AbsorbedTags(positions) ==
  UNION {AsSet(TagList(d_leads[positions[k]])) : k \in 1..Len(positions)}

\* C21: every lead given to the reconciler by an adapter and every bucket,
\* after any number of merges, has a provenance that is non-empty, has no
\* empty tag and lists no tag twice; the provenance of a bucket that
\* absorbed more than one lead is the sorted list, joined by ", ", of the
\* tags of all the leads it absorbed
C21_Provenance ==
  /\ \A k \in 1..Len(d_leads) :
       /\ d_leads[k].source # << >>
       /\ << >> \notin AsSet(TagList(d_leads[k]))
  /\ \A b \in 1..Len(d_unique) :
       LET tags == TagList(d_unique[b])
       IN  /\ d_unique[b].source # << >>
           /\ << >> \notin AsSet(tags)
           /\ \A i \in 1..Len(tags) : \A j \in 1..Len(tags) :
                i # j => tags[i] # tags[j]
           /\ Len(d_origin[b]) > 1 =>
                d_unique[b].source
                  = JoinCommaSpace(Sorted(AbsorbedTags(d_origin[b])))

\* one bucket absorbed three leads of three sources
C21_Witness ==
  /\ d_result # None
  /\ d_origin = << << 1, 2, 3 >> >>
  /\ Cardinality(AbsorbedTags(d_origin[1])) = 3
  /\ Len(TagList(d_unique[1])) = 3

(* ------------------------------------------------------------------ *)
(* A call of normalize_phone on its own (scrapers/base.py)              *)
(* ------------------------------------------------------------------ *)

\* the digits of a number with a country code, and one more
PHONE_DIGITS == << "1", "5", "7", "1", "2", "2", "3", "1", "6", "1", "5", "9" >>

\* the most digits, of two kinds, in a phone string made of digits only
MaxDigits == 12

\* the first n digits of PHONE_DIGITS written the way sites write a number:
\* after `pre`, with `sep` after the third and the sixth digit, before `post`
Written(pre, n, sep, post) ==
  pre \o SubSeq(PHONE_DIGITS, 1, Min(n, 3))
      \o (IF n > 3 THEN sep \o SubSeq(PHONE_DIGITS, 4, Min(n, 6)) ELSE << >>)
      \o (IF n > 6 THEN sep \o SubSeq(PHONE_DIGITS, 7, n) ELSE << >>)
      \o post

\* the strings given to normalize_phone: the empty string, every string of
\* up to MaxDigits digits "1" and "5", numbers of 0 to 12 digits written with
\* and without a country code, separators and an extension, numbers
\* already in canonical form, and the forms the docstring lists
PhoneInputs ==
  UNION {[1..n -> {"1", "5"}] : n \in 0..MaxDigits}
  \cup {Written(pre, n, sep, post) :
          pre \in {<< >>, << "+" >>, << "+", "1", " " >>, << "(" >>, << "t", "e", "l", ":" >>},
          n \in 0..Len(PHONE_DIGITS),
          sep \in {<< >>, << " " >>, << "-" >>, << ".", " " >>},
          post \in {<< >>, << " ", "x", "9" >>, << " " >>}}
  \cup {<< "(", "5", "7", "1", ")", " ", "2", "2", "3", "-", "1", "6", "1", "5" >>,
        << "(", "1", "5", "7", ")", " ", "1", "2", "2", "-", "3", "1", "6", "1" >>,
        << "5", "7", "1", "2", "2", "3", "1", "6", "1", "5" >>,
        << "+", "1", " ", "5", "7", "1", " ", "2", "2", "3", " ", "1", "6", "1", "5" >>,
        << "+", "1", "5", "7", "1", "2", "2", "3", "1", "6", "1", "5" >>,
        << "1", "2", "3" >>, << "n", "/", "a" >>}

InitPhone ==
  /\ city_str = ASHBURN_VA
  /\ sequential = FALSE
  /\ sources = << MINDBODY >>
  /\ max_retries = MAX_RETRIES
  /\ cacheFile = EmptyCache
  /\ InitRest
  /\ NoDedupCall
  /\ p_raw \in PhoneInputs
  /\ p_once = None
  /\ p_twice = None
  /\ NoBrowserRun
  /\ NoGeoCalls
  /\ NoSinkCall

(* normalize_phone(raw) *)
PhoneCall ==
  /\ p_once = None
  /\ p_once' = [value |-> normalize_phone(p_raw)]
  /\ UNCHANGED << p_raw, p_twice >>
  /\ UNCHANGED argsVars
  /\ UNCHANGED mainVars
  /\ UNCHANGED workerVars
  /\ UNCHANGED dedupVars
  /\ UNCHANGED browserVars
  /\ UNCHANGED geoVars
  /\ UNCHANGED sinkVars

(* normalize_phone applied to its own result *)
PhoneCallAgain ==
  /\ p_once # None
  /\ p_twice = None
  /\ p_twice' = [value |-> normalize_phone(p_once.value)]
  /\ UNCHANGED << p_raw, p_once >>
  /\ UNCHANGED argsVars
  /\ UNCHANGED mainVars
  /\ UNCHANGED workerVars
  /\ UNCHANGED dedupVars
  /\ UNCHANGED browserVars
  /\ UNCHANGED geoVars
  /\ UNCHANGED sinkVars

NextPhone == PhoneCall \/ PhoneCallAgain

SpecPhone == InitPhone /\ [][NextPhone]_vars

\* C22: canonicalizing a phone string twice gives what canonicalizing it
\* once gives
C22_PhoneIdempotent ==
  p_twice # None => p_twice.value = p_once.value

\* a number with a country code and separators was canonicalized twice
C22_Witness ==
  /\ p_twice # None
  /\ p_raw = << "+", "1", " ", "5", "7", "1", " ", "2", "2", "3", " ", "1", "6", "1", "5" >>
  /\ p_once.value # p_raw
  /\ p_twice.value = p_once.value

\* the digits of s, in order, as the positions they stand at
DigitPositions(s) == {i \in 1..Len(s) : s[i] \in DigitChars}

\* s is "(XXX) XXX-XXXX" written with the ten digits d
IsCanonical(s, d) ==
  /\ Len(s) = 14
  /\ Len(d) = 10
  /\ s[1] = "(" /\ s[5] = ")" /\ s[6] = " " /\ s[10] = "-"
  /\ << s[2], s[3], s[4], s[7], s[8], s[9], s[11], s[12], s[13], s[14] >> = d

b_source == sources[1]

\* the positions of the leads _enrich_phone_numbers visits: those with a website
ToEnrich(leads) == {k \in 1..Len(leads) : leads[k].website # << >>}

\* what a detail page gives as the phone number: none, or one
DetailPhones == {<< >>, << "5", "7", "1", "2", "3", "4", "5", "6", "7", "8" >>}

\* a driver whose exit leaves its browsers running
DriverStopLeaves(open, a) == open

\* the end of "with sync_playwright() as p": the driver process started for
\* `a` is stopped, and with it every browser and context launched through it
DriverStop(open, a) == open \ {a}

\* control is in run, outside _run_browser
InRetryWrapper == b_pc \in {"loop", "return", "except", "sleep", "returned"}

InitBrowser ==
  /\ city_str = ASHBURN_VA
  /\ sequential = FALSE
  /\ sources \in {<< MINDBODY >>, << CROSSFIT >>}
  /\ max_retries = MAX_RETRIES
  /\ cacheFile = EmptyCache
  /\ InitRest
  /\ NoDedupCall
  /\ NoPhoneCall
  /\ b_pc = "loop"
  /\ b_attempt = 0
  /\ b_exc = "none"
  /\ b_leads = << >>
  /\ b_drivers = {}
  /\ b_browsers = {}
  /\ b_contexts = {}
  /\ b_result = None
  /\ e_pc = << >>
  /\ e_phone = << >>
  /\ e_drivers = {}
  /\ e_browsers = {}
  /\ NoGeoCalls
  /\ NoSinkCall

(* run, lines 75-77 and 86: the loop takes the next attempt and calls
   _run_browser, or ends and run returns [] *)
RunLoop ==
  /\ b_pc = "loop"
  /\ IF InRange(b_attempt, max_retries)
     THEN /\ b_pc' = "start"
          /\ b_result' = b_result
     ELSE /\ b_pc' = "returned"
          /\ b_result' = [value |-> << >>]
  /\ b_exc' = "none"
  /\ b_leads' = << >>
  /\ UNCHANGED << b_attempt, b_drivers, b_browsers, b_contexts, e_pc, e_phone,
                  e_drivers, e_browsers >>
  /\ UNCHANGED argsVars
  /\ UNCHANGED mainVars
  /\ UNCHANGED workerVars
  /\ UNCHANGED dedupVars
  /\ UNCHANGED phoneVars
  /\ UNCHANGED geoVars
  /\ UNCHANGED sinkVars

(* _run_browser, line 90: sync_playwright() starts the driver, or raises *)
PlaywrightStart ==
  /\ b_pc = "start"
  /\ \/ /\ b_drivers' = b_drivers \cup {b_attempt}
        /\ b_pc' = "launch"
        /\ b_exc' = b_exc
     \/ /\ b_drivers' = b_drivers
        /\ b_pc' = "except"
        /\ b_exc' = "start"
  /\ UNCHANGED << b_attempt, b_leads, b_browsers, b_contexts, b_result, e_pc,
                  e_phone, e_drivers, e_browsers >>
  /\ UNCHANGED argsVars
  /\ UNCHANGED mainVars
  /\ UNCHANGED workerVars
  /\ UNCHANGED dedupVars
  /\ UNCHANGED phoneVars
  /\ UNCHANGED geoVars
  /\ UNCHANGED sinkVars

(* _run_browser, lines 91-94: p.chromium.launch returns a browser, or raises *)
Launch ==
  /\ b_pc = "launch"
  /\ \/ /\ b_browsers' = b_browsers \cup {b_attempt}
        /\ b_pc' = "new_context"
        /\ b_exc' = b_exc
     \/ /\ b_browsers' = b_browsers
        /\ b_pc' = "with_exit"
        /\ b_exc' = "launch"
  /\ UNCHANGED << b_attempt, b_leads, b_drivers, b_contexts, b_result, e_pc,
                  e_phone, e_drivers, e_browsers >>
  /\ UNCHANGED argsVars
  /\ UNCHANGED mainVars
  /\ UNCHANGED workerVars
  /\ UNCHANGED dedupVars
  /\ UNCHANGED phoneVars
  /\ UNCHANGED geoVars
  /\ UNCHANGED sinkVars

(* _run_browser, lines 95-100: browser.new_context returns a context, or raises *)
NewContext ==
  /\ b_pc = "new_context"
  /\ \/ /\ b_contexts' = b_contexts \cup {b_attempt}
        /\ b_pc' = "setup"
        /\ b_exc' = b_exc
     \/ /\ b_contexts' = b_contexts
        /\ b_pc' = "with_exit"
        /\ b_exc' = "new_context"
  /\ UNCHANGED << b_attempt, b_leads, b_drivers, b_browsers, b_result, e_pc,
                  e_phone, e_drivers, e_browsers >>
  /\ UNCHANGED argsVars
  /\ UNCHANGED mainVars
  /\ UNCHANGED workerVars
  /\ UNCHANGED dedupVars
  /\ UNCHANGED phoneVars
  /\ UNCHANGED geoVars
  /\ UNCHANGED sinkVars

(* _run_browser, lines 102-115: add_init_script, new_page and route, any of
   which may raise; they stand before the try statement *)
PageSetup ==
  /\ b_pc = "setup"
  /\ \/ /\ b_pc' = "scrape"
        /\ b_exc' = b_exc
     \/ /\ b_pc' = "with_exit"
        /\ b_exc' = "setup"
  /\ UNCHANGED << b_attempt, b_leads, b_drivers, b_browsers, b_contexts, b_result,
                  e_pc, e_phone, e_drivers, e_browsers >>
  /\ UNCHANGED argsVars
  /\ UNCHANGED mainVars
  /\ UNCHANGED workerVars
  /\ UNCHANGED dedupVars
  /\ UNCHANGED phoneVars
  /\ UNCHANGED geoVars
  /\ UNCHANGED sinkVars

(* _run_browser, lines 117-119: _scrape raises, or builds its leads; the
   CrossFit adapter then hands every lead with a website to a pool of
   _fetch_phone workers (crossfit.py, lines 102-116) *)
Scrape ==
  /\ b_pc = "scrape"
  /\ \/ /\ b_pc' = "finally_context"
        /\ b_exc' = "scrape"
        /\ UNCHANGED << b_leads, e_pc, e_phone >>
     \/ \E leads \in Returns(b_source) :
          /\ b_leads' = leads
          /\ b_exc' = b_exc
          /\ IF b_source = CROSSFIT
             THEN /\ b_pc' = "enrich"
                  /\ e_pc' = [k \in ToEnrich(leads) |-> "queued"]
                  /\ e_phone' = [k \in ToEnrich(leads) |-> None]
             ELSE /\ b_pc' = "finally_context"
                  /\ UNCHANGED << e_pc, e_phone >>
  /\ UNCHANGED << b_attempt, b_drivers, b_browsers, b_contexts, b_result,
                  e_drivers, e_browsers >>
  /\ UNCHANGED argsVars
  /\ UNCHANGED mainVars
  /\ UNCHANGED workerVars
  /\ UNCHANGED dedupVars
  /\ UNCHANGED phoneVars
  /\ UNCHANGED geoVars
  /\ UNCHANGED sinkVars

(* _fetch_phone, line 14: sync_playwright() starts a driver of its own, or
   raises *)
FetchStart(k) ==
  /\ b_pc = "enrich"
  /\ k \in DOMAIN e_pc
  /\ e_pc[k] = "queued"
  /\ \/ /\ e_drivers' = e_drivers \cup {k}
        /\ e_pc' = [e_pc EXCEPT ![k] = "launch"]
     \/ /\ e_drivers' = e_drivers
        /\ e_pc' = [e_pc EXCEPT ![k] = "done"]
  /\ UNCHANGED << b_pc, b_attempt, b_exc, b_leads, b_drivers, b_browsers,
                  b_contexts, b_result, e_phone, e_browsers >>
  /\ UNCHANGED argsVars
  /\ UNCHANGED mainVars
  /\ UNCHANGED workerVars
  /\ UNCHANGED dedupVars
  /\ UNCHANGED phoneVars
  /\ UNCHANGED geoVars
  /\ UNCHANGED sinkVars

(* _fetch_phone, line 15: p.chromium.launch returns a browser, or raises *)
FetchLaunch(k) ==
  /\ b_pc = "enrich"
  /\ k \in DOMAIN e_pc
  /\ e_pc[k] = "launch"
  /\ \/ /\ e_browsers' = e_browsers \cup {k}
        /\ e_pc' = [e_pc EXCEPT ![k] = "page"]
     \/ /\ e_browsers' = e_browsers
        /\ e_pc' = [e_pc EXCEPT ![k] = "exit"]
  /\ UNCHANGED << b_pc, b_attempt, b_exc, b_leads, b_drivers, b_browsers,
                  b_contexts, b_result, e_phone, e_drivers >>
  /\ UNCHANGED argsVars
  /\ UNCHANGED mainVars
  /\ UNCHANGED workerVars
  /\ UNCHANGED dedupVars
  /\ UNCHANGED phoneVars
  /\ UNCHANGED geoVars
  /\ UNCHANGED sinkVars

(* _fetch_phone, lines 16-24: new_page and route, either of which may raise;
   they stand before the try statement *)
FetchPage(k) ==
  /\ b_pc = "enrich"
  /\ k \in DOMAIN e_pc
  /\ e_pc[k] = "page"
  /\ \/ e_pc' = [e_pc EXCEPT ![k] = "goto"]
     \/ e_pc' = [e_pc EXCEPT ![k] = "exit"]
  /\ UNCHANGED << b_pc, b_attempt, b_exc, b_leads, b_drivers, b_browsers,
                  b_contexts, b_result, e_phone, e_drivers, e_browsers >>
  /\ UNCHANGED argsVars
  /\ UNCHANGED mainVars
  /\ UNCHANGED workerVars
  /\ UNCHANGED dedupVars
  /\ UNCHANGED phoneVars
  /\ UNCHANGED geoVars
  /\ UNCHANGED sinkVars

(* _fetch_phone, lines 25-30: the phone of the detail page, or "" when
   anything raises *)
FetchGoto(k) ==
  /\ b_pc = "enrich"
  /\ k \in DOMAIN e_pc
  /\ e_pc[k] = "goto"
  /\ \E phone \in DetailPhones :
       e_phone' = [e_phone EXCEPT ![k] = [value |-> phone]]
  /\ e_pc' = [e_pc EXCEPT ![k] = "finally"]
  /\ UNCHANGED << b_pc, b_attempt, b_exc, b_leads, b_drivers, b_browsers,
                  b_contexts, b_result, e_drivers, e_browsers >>
  /\ UNCHANGED argsVars
  /\ UNCHANGED mainVars
  /\ UNCHANGED workerVars
  /\ UNCHANGED dedupVars
  /\ UNCHANGED phoneVars
  /\ UNCHANGED geoVars
  /\ UNCHANGED sinkVars

(* _fetch_phone, lines 31-32: browser.close() closes the browser, or raises
   in place of the return *)
FetchFinally(k) ==
  /\ b_pc = "enrich"
  /\ k \in DOMAIN e_pc
  /\ e_pc[k] = "finally"
  /\ \/ /\ e_browsers' = e_browsers \ {k}
        /\ e_phone' = e_phone
     \/ /\ e_browsers' = e_browsers
        /\ e_phone' = [e_phone EXCEPT ![k] = None]
  /\ e_pc' = [e_pc EXCEPT ![k] = "exit"]
  /\ UNCHANGED << b_pc, b_attempt, b_exc, b_leads, b_drivers, b_browsers,
                  b_contexts, b_result, e_drivers >>
  /\ UNCHANGED argsVars
  /\ UNCHANGED mainVars
  /\ UNCHANGED workerVars
  /\ UNCHANGED dedupVars
  /\ UNCHANGED phoneVars
  /\ UNCHANGED geoVars
  /\ UNCHANGED sinkVars

(* _fetch_phone, line 14: the with block ends and the driver stops *)
FetchExit(k) ==
  /\ b_pc = "enrich"
  /\ k \in DOMAIN e_pc
  /\ e_pc[k] = "exit"
  /\ e_drivers' = e_drivers \ {k}
  /\ e_browsers' = DriverStop(e_browsers, k)
  /\ e_pc' = [e_pc EXCEPT ![k] = "done"]
  /\ UNCHANGED << b_pc, b_attempt, b_exc, b_leads, b_drivers, b_browsers,
                  b_contexts, b_result, e_phone >>
  /\ UNCHANGED argsVars
  /\ UNCHANGED mainVars
  /\ UNCHANGED workerVars
  /\ UNCHANGED dedupVars
  /\ UNCHANGED phoneVars
  /\ UNCHANGED geoVars
  /\ UNCHANGED sinkVars

(* _enrich_phone_numbers, lines 117-125: every future is done; a phone that
   was found is stored in its lead, an exception of a worker is dropped, and
   _scrape returns *)
EnrichJoin ==
  /\ b_pc = "enrich"
  /\ \A k \in DOMAIN e_pc : e_pc[k] = "done"
  /\ b_leads' = [k \in 1..Len(b_leads) |->
                   IF k \in DOMAIN e_pc /\ e_phone[k] # None
                      /\ e_phone[k].value # << >>
                   THEN [b_leads[k] EXCEPT !.phone = e_phone[k].value]
                   ELSE b_leads[k]]
  /\ e_pc' = << >>
  /\ e_phone' = << >>
  /\ b_pc' = "finally_context"
  /\ UNCHANGED << b_attempt, b_exc, b_drivers, b_browsers, b_contexts, b_result,
                  e_drivers, e_browsers >>
  /\ UNCHANGED argsVars
  /\ UNCHANGED mainVars
  /\ UNCHANGED workerVars
  /\ UNCHANGED dedupVars
  /\ UNCHANGED phoneVars
  /\ UNCHANGED geoVars
  /\ UNCHANGED sinkVars

(* _run_browser, line 121: context.close() closes the context, or raises *)
FinallyContext ==
  /\ b_pc = "finally_context"
  /\ \/ /\ b_contexts' = b_contexts \ {b_attempt}
        /\ b_pc' = "finally_browser"
        /\ b_exc' = b_exc
     \/ /\ b_contexts' = b_contexts
        /\ b_pc' = "with_exit"
        /\ b_exc' = "context_close"
  /\ UNCHANGED << b_attempt, b_leads, b_drivers, b_browsers, b_result, e_pc,
                  e_phone, e_drivers, e_browsers >>
  /\ UNCHANGED argsVars
  /\ UNCHANGED mainVars
  /\ UNCHANGED workerVars
  /\ UNCHANGED dedupVars
  /\ UNCHANGED phoneVars
  /\ UNCHANGED geoVars
  /\ UNCHANGED sinkVars

(* _run_browser, line 122: browser.close() closes the browser and what is
   left of its contexts, or raises *)
FinallyBrowser ==
  /\ b_pc = "finally_browser"
  /\ \/ /\ b_browsers' = b_browsers \ {b_attempt}
        /\ b_contexts' = b_contexts \ {b_attempt}
        /\ b_exc' = b_exc
     \/ /\ UNCHANGED << b_browsers, b_contexts >>
        /\ b_exc' = "browser_close"
  /\ b_pc' = "with_exit"
  /\ UNCHANGED << b_attempt, b_leads, b_drivers, b_result, e_pc, e_phone,
                  e_drivers, e_browsers >>
  /\ UNCHANGED argsVars
  /\ UNCHANGED mainVars
  /\ UNCHANGED workerVars
  /\ UNCHANGED dedupVars
  /\ UNCHANGED phoneVars
  /\ UNCHANGED geoVars
  /\ UNCHANGED sinkVars

(* _run_browser, line 90: the with block ends, on a return and on an
   exception alike, and the driver stops; control is back in run *)
WithExit ==
  /\ b_pc = "with_exit"
  /\ b_drivers' = b_drivers \ {b_attempt}
  /\ b_browsers' = DriverStop(b_browsers, b_attempt)
  /\ b_contexts' = DriverStop(b_contexts, b_attempt)
  /\ b_pc' = IF b_exc # "none" THEN "except" ELSE "return"
  /\ UNCHANGED << b_attempt, b_exc, b_leads, b_result, e_pc, e_phone, e_drivers,
                  e_browsers >>
  /\ UNCHANGED argsVars
  /\ UNCHANGED mainVars
  /\ UNCHANGED workerVars
  /\ UNCHANGED dedupVars
  /\ UNCHANGED phoneVars
  /\ UNCHANGED geoVars
  /\ UNCHANGED sinkVars

(* run, line 77: "return self._run_browser()" *)
RunReturn ==
  /\ b_pc = "return"
  /\ b_result' = [value |-> b_leads]
  /\ b_pc' = "returned"
  /\ UNCHANGED << b_attempt, b_exc, b_leads, b_drivers, b_browsers, b_contexts,
                  e_pc, e_phone, e_drivers, e_browsers >>
  /\ UNCHANGED argsVars
  /\ UNCHANGED mainVars
  /\ UNCHANGED workerVars
  /\ UNCHANGED dedupVars
  /\ UNCHANGED phoneVars
  /\ UNCHANGED geoVars
  /\ UNCHANGED sinkVars

(* run, lines 78-85: the handler sleeps before the next attempt, or, on the
   last one, lets the loop end *)
RunExcept ==
  /\ b_pc = "except"
  /\ IF RetriesLeft(b_attempt, max_retries)
     THEN /\ b_pc' = "sleep"
          /\ b_attempt' = b_attempt
     ELSE /\ b_pc' = "loop"
          /\ b_attempt' = b_attempt + 1
  /\ UNCHANGED << b_exc, b_leads, b_drivers, b_browsers, b_contexts, b_result,
                  e_pc, e_phone, e_drivers, e_browsers >>
  /\ UNCHANGED argsVars
  /\ UNCHANGED mainVars
  /\ UNCHANGED workerVars
  /\ UNCHANGED dedupVars
  /\ UNCHANGED phoneVars
  /\ UNCHANGED geoVars
  /\ UNCHANGED sinkVars

(* run, line 83: time.sleep(delay) ends and the loop goes on *)
RunSleepEnds ==
  /\ b_pc = "sleep"
  /\ b_pc' = "loop"
  /\ b_attempt' = b_attempt + 1
  /\ UNCHANGED << b_exc, b_leads, b_drivers, b_browsers, b_contexts, b_result,
                  e_pc, e_phone, e_drivers, e_browsers >>
  /\ UNCHANGED argsVars
  /\ UNCHANGED mainVars
  /\ UNCHANGED workerVars
  /\ UNCHANGED dedupVars
  /\ UNCHANGED phoneVars
  /\ UNCHANGED geoVars
  /\ UNCHANGED sinkVars

NextBrowser ==
  \/ RunLoop
  \/ PlaywrightStart
  \/ Launch
  \/ NewContext
  \/ PageSetup
  \/ Scrape
  \/ \E k \in DOMAIN e_pc : FetchStart(k)
  \/ \E k \in DOMAIN e_pc : FetchLaunch(k)
  \/ \E k \in DOMAIN e_pc : FetchPage(k)
  \/ \E k \in DOMAIN e_pc : FetchGoto(k)
  \/ \E k \in DOMAIN e_pc : FetchFinally(k)
  \/ \E k \in DOMAIN e_pc : FetchExit(k)
  \/ EnrichJoin
  \/ FinallyContext
  \/ FinallyBrowser
  \/ WithExit
  \/ RunReturn
  \/ RunExcept
  \/ RunSleepEnds

SpecBrowser == InitBrowser /\ [][NextBrowser]_vars

GeoQueries == {ASHBURN_VA, RESTON_VA, NOWHERE_ZZ}

\* the number of calls
MaxCalls == 3

GeoCalls == 1..MaxCalls

\* a load that never finds the file
_load_cacheEmpty(file) == EmptyCache

\* _load_cache(): the dict in the file (json.load gives back the strings and
\* numbers that json.dump wrote)
_load_cache(file) == file

\* an assignment under the lowercased key
SetItemLowerKey(cache, key, value) ==
  [q \in DOMAIN cache \cup {Lower(key)} |->
     IF q = Lower(key) THEN value ELSE cache[q]]

\* "cache[city_str] = result"
SetItem(cache, key, value) ==
  [q \in DOMAIN cache \cup {key} |-> IF q = key THEN value ELSE cache[q]]

\* a save that reads the file again and adds its entries to it
_save_cacheMerging(file, cache) ==
  [q \in DOMAIN file \cup DOMAIN cache |->
     IF q \in DOMAIN cache THEN cache[q] ELSE file[q]]

\* _save_cache(cache): open(_CACHE_FILE, "w") and json.dump write the whole
\* dict in place of what the file held
_save_cache(file, cache) == cache

\* the other variables of main
mainButCache == << geo, pc, exit_status, stderr, stdout, submitted, collected,
                   all_leads, source_results, unique_leads, csv_file >>

InitGeo ==
  /\ city_str = ASHBURN_VA
  /\ sequential = FALSE
  /\ sources = << MINDBODY >>
  /\ max_retries = MAX_RETRIES
  /\ cacheFile \in Caches
  /\ InitRest
  /\ NoDedupCall
  /\ NoPhoneCall
  /\ NoBrowserRun
  /\ g_query \in [GeoCalls -> GeoQueries]
  /\ g_pc = [c \in GeoCalls |-> "idle"]
  /\ g_cache = [c \in GeoCalls |-> EmptyCache]
  /\ g_ret = [c \in GeoCalls |-> None]
  /\ g_known = [c \in GeoCalls |-> {}]
  /\ g_asked = [c \in GeoCalls |-> FALSE]
  /\ g_saved = cacheFile
  /\ g_overlapped = FALSE
  /\ NoSinkCall

(* geocode_city, lines 39-41: load the cache and return the entry of
   city_str if there is one *)
GeoBegin(c) ==
  /\ g_pc[c] = "idle"
  /\ LET cache == _load_cache(cacheFile)
     IN  /\ g_cache' = [g_cache EXCEPT ![c] = cache]
         /\ IF g_query[c] \in DOMAIN cache
            THEN /\ g_ret' = [g_ret EXCEPT ![c] =
                                [raised |-> FALSE, value |-> cache[g_query[c]]]]
                 /\ g_pc' = [g_pc EXCEPT ![c] = "done"]
            ELSE /\ g_ret' = g_ret
                 /\ g_pc' = [g_pc EXCEPT ![c] = "miss"]
  /\ g_known' = [g_known EXCEPT ![c] = DOMAIN g_saved]
  /\ g_overlapped' = (g_overlapped
                        \/ \E d \in GeoCalls \ {c} : g_pc[d] \in {"miss", "save"})
  /\ UNCHANGED << g_query, g_asked, g_saved >>
  /\ UNCHANGED cacheFile
  /\ UNCHANGED mainButCache
  /\ UNCHANGED argsVars
  /\ UNCHANGED workerVars
  /\ UNCHANGED dedupVars
  /\ UNCHANGED phoneVars
  /\ UNCHANGED browserVars
  /\ UNCHANGED sinkVars

(* geocode_city, lines 43-80: ask the geocoder; raise ValueError when it
   finds no place, else build the record and put it in the local dict *)
GeoAsk(c) ==
  /\ g_pc[c] = "miss"
  /\ g_asked' = [g_asked EXCEPT ![c] = TRUE]
  /\ LET location == Nominatim(g_query[c])
     IN  IF location = None
         THEN /\ g_ret' = [g_ret EXCEPT ![c] = [raised |-> TRUE, value |-> None]]
              /\ g_pc' = [g_pc EXCEPT ![c] = "done"]
              /\ g_cache' = g_cache
         ELSE /\ g_cache' = [g_cache EXCEPT ![c] =
                               SetItem(@, g_query[c], GeoResult(g_query[c], location))]
              /\ g_pc' = [g_pc EXCEPT ![c] = "save"]
              /\ g_ret' = g_ret
  /\ UNCHANGED << g_query, g_known, g_saved, g_overlapped >>
  /\ UNCHANGED cacheFile
  /\ UNCHANGED mainButCache
  /\ UNCHANGED argsVars
  /\ UNCHANGED workerVars
  /\ UNCHANGED dedupVars
  /\ UNCHANGED phoneVars
  /\ UNCHANGED browserVars
  /\ UNCHANGED sinkVars

(* geocode_city, lines 81-83: write the local dict to the file and return
   the record *)
GeoSave(c) ==
  /\ g_pc[c] = "save"
  /\ cacheFile' = _save_cache(cacheFile, g_cache[c])
  /\ g_ret' = [g_ret EXCEPT ![c] =
                 [raised |-> FALSE,
                  value |-> GeoResult(g_query[c], Nominatim(g_query[c]))]]
  /\ g_saved' = [q \in DOMAIN g_saved \cup {g_query[c]} |->
                   IF q \in DOMAIN g_saved THEN g_saved[q]
                   ELSE GeoResult(g_query[c], Nominatim(g_query[c]))]
  /\ g_pc' = [g_pc EXCEPT ![c] = "done"]
  /\ UNCHANGED << g_query, g_cache, g_known, g_asked, g_overlapped >>
  /\ UNCHANGED mainButCache
  /\ UNCHANGED argsVars
  /\ UNCHANGED workerVars
  /\ UNCHANGED dedupVars
  /\ UNCHANGED phoneVars
  /\ UNCHANGED browserVars
  /\ UNCHANGED sinkVars

NextGeo ==
  \/ \E c \in GeoCalls : GeoBegin(c)
  \/ \E c \in GeoCalls : GeoAsk(c)
  \/ \E c \in GeoCalls : GeoSave(c)

SpecGeo == InitGeo /\ [][NextGeo]_vars

\* a query string resolved and saved before a call began is answered from
\* the cache, with the record first saved for it and without a request to
\* the geocoder, and every record saved is still in the file, unchanged
CacheReused ==
  /\ \A c \in GeoCalls :
       (g_pc[c] = "done" /\ g_query[c] \in g_known[c]) =>
         /\ ~g_asked[c]
         /\ ~g_ret[c].raised
         /\ g_ret[c].value = g_saved[g_query[c]]
  /\ \A q \in DOMAIN g_saved :
       /\ q \in DOMAIN cacheFile
       /\ cacheFile[q] = g_saved[q]

\* C25 as stated: after one successful resolution of a query string, every
\* later call with the same string returns the cached record without a
\* request to the geocoder, and resolutions of other strings do not change
\* the cached record
C25_CacheReuse == CacheReused

\* C25, amended: the same, as long as no call began while another call was
\* between loading the cache and saving it
C25_CacheReuseInSequence == ~g_overlapped => CacheReused

\* one after the other: Ashburn was resolved and saved, then Reston, and a
\* third call for Ashburn was answered from the cache
C25_Witness ==
  /\ ~g_overlapped
  /\ g_saved # << >>
  /\ \E c \in GeoCalls : \E d \in GeoCalls : \E e \in GeoCalls :
       /\ g_pc[c] = "done" /\ g_asked[c] /\ ~g_ret[c].raised
       /\ g_pc[d] = "done" /\ g_asked[d] /\ ~g_ret[d].raised
       /\ g_query[d] # g_query[c]
       /\ g_query[e] = g_query[c]
       /\ g_known[d] = {g_query[c]}
       /\ g_known[e] = {g_query[c], g_query[d]}
       /\ g_pc[e] = "done" /\ ~g_asked[e]
       /\ g_ret[e].value = g_ret[c].value

\* C29: when the calls run one after the other, a call that resolves a new
\* query string writes a file that holds every entry the file held before,
\* unchanged, and the new entry, and a call that the geocoder gives no place
\* leaves the file as it was, as does every step that is not a save
C29_RewriteKeepsEntries ==
  [][\A c \in GeoCalls :
       /\ (~g_overlapped /\ g_pc[c] = "save" /\ g_pc'[c] = "done") =>
            /\ g_query[c] \notin DOMAIN cacheFile
            /\ DOMAIN cacheFile' = DOMAIN cacheFile \cup {g_query[c]}
            /\ \A q \in DOMAIN cacheFile : cacheFile'[q] = cacheFile[q]
            /\ cacheFile'[g_query[c]] = g_ret'[c].value
       /\ (g_pc[c] = "miss" /\ g_pc'[c] = "done") =>
            /\ g_ret'[c].raised
            /\ cacheFile' = cacheFile
       /\ (\A d \in GeoCalls : g_pc[d] # "save") => cacheFile' = cacheFile]_vars

\* one after the other: a call for a place the geocoder does not know
\* raised, and a call for Reston added its entry to a file that held Ashburn
C29_Witness ==
  /\ ~g_overlapped
  /\ \E c \in GeoCalls : g_pc[c] = "done" /\ g_ret[c].raised
  /\ \E c \in GeoCalls :
       /\ g_pc[c] = "done" /\ g_asked[c] /\ ~g_ret[c].raised
       /\ g_known[c] # {}
       /\ DOMAIN cacheFile = g_known[c] \cup {g_query[c]}

\* C30: when a call saves a dict that it loaded before another call's entry
\* for a different query string was saved, the file it writes holds its own
\* entry and no longer holds the other call's: the last writer wins
C30_LostUpdate ==
  [][\A c \in GeoCalls : \A d \in GeoCalls \ {c} :
       (/\ g_pc[c] = "save" /\ g_pc'[c] = "done"
        /\ g_pc[d] = "done" /\ g_asked[d] /\ ~g_ret[d].raised
        /\ g_query[d] # g_query[c]
        /\ g_query[d] \in DOMAIN cacheFile
        /\ g_query[d] \notin DOMAIN g_cache[c]) =>
         /\ g_query[c] \in DOMAIN cacheFile'
         /\ g_query[d] \notin DOMAIN cacheFile']_vars

\* two calls for different query strings, neither in the cache, both loaded
\* the empty file before either saved; both returned their records, and the
\* file holds the entry of one of them only
C30_Witness ==
  \E c \in GeoCalls : \E d \in GeoCalls \ {c} :
    /\ g_overlapped
    /\ g_pc[c] = "done" /\ g_asked[c] /\ ~g_ret[c].raised
    /\ g_pc[d] = "done" /\ g_asked[d] /\ ~g_ret[d].raised
    /\ g_known[c] = {} /\ g_known[d] = {}
    /\ g_query[c] # g_query[d]
    /\ DOMAIN g_saved = {g_query[c], g_query[d]}
    /\ DOMAIN cacheFile = {g_query[c]}

(* ------------------------------------------------------------------ *)
(* deduplicate followed by write_leads_csv (utils/dedup.py,             *)
(* utils/csv_writer.py)                                                 *)
(* ------------------------------------------------------------------ *)

\* leads whose names carry the suffixes booking platforms add, with phone
\* numbers in several forms
GOLDS_ASHBURN_MB ==
  MkLead(<< "G", "o", "l", "d", "'", "s", " ", "G", "y", "m", " ",
            "A", "s", "h", "b", "u", "r", "n", " ", "#", "0", "1", "9", "6" >>,
         << >>,
         << "A", "s", "h", "b", "u", "r", "n" >>, << "V", "A" >>,
         << >>, << >>,
         << >>,
         << "m", "i", "n", "d", "b", "o", "d", "y" >>)

GOLDS_ASHBURN_CF ==
  MkLead(<< "g", "o", "l", "d", "s", " ", "g", "y", "m", " ",
            "a", "s", "h", "b", "u", "r", "n" >>,
         << >>,
         << "A", "s", "h", "b", "u", "r", "n" >>, << "V", "A" >>,
         << "5", "7", "1", "2", "3", "4", "5", "6", "7", "8" >>, << >>,
         << >>,
         << "c", "r", "o", "s", "s", "f", "i", "t" >>)

ZEN_CODE_GM ==
  MkLead(<< "Z", "e", "n", " ", "Y", "o", "g", "a", ",", " ",
            "E", "M", "-", "V", "A", "-", "2", "0", "0", "0", "5" >>,
         << "4", " ", "A", "s", "h" >>,
         << "A", "s", "h", "b", "u", "r", "n" >>, << "V", "A" >>,
         << "+", "1", " ", "5", "7", "1", " ", "2", "2", "3", " ", "1", "6", "1", "5" >>,
         << >>,
         << "Y", "o", "g", "a" >>,
         << "g", "o", "o", "g", "l", "e", "_", "m", "a", "p", "s" >>)

IRONCLUB_DOT_CF ==
  MkLead(<< "I", "r", "o", "n", "c", "l", "u", "b", " ",
            "D", "C", ".", "M", "D", ".", "V", "A" >>,
         << >>,
         << "A", "s", "h", "b", "u", "r", "n" >>, << "V", "A" >>,
         << "1", "2", "3" >>, << >>,
         << >>,
         << "c", "r", "o", "s", "s", "f", "i", "t" >>)

SinkPool == {GOLDS_ASHBURN_MB, GOLDS_ASHBURN_CF, ZEN_CODE_GM, IRONCLUB_DOT_CF,
             IRONCLUB_MB}

InitSink ==
  /\ city_str = ASHBURN_VA
  /\ sequential = FALSE
  /\ sources = << MINDBODY >>
  /\ max_retries = MAX_RETRIES
  /\ cacheFile = EmptyCache
  /\ InitRest
  /\ NoPhoneCall
  /\ NoBrowserRun
  /\ NoGeoCalls
  /\ d_leads \in SeqsUpTo(SinkPool, MaxInput)
  /\ d_unique = << >>
  /\ d_next = 1
  /\ d_origin = << >>
  /\ d_result = None
  /\ d_heap = d_leads
  /\ d_input = [k \in 1..Len(d_leads) |-> k]
  /\ d_refs = << >>
  /\ s_rows = None

(* write_leads_csv, lines 32-36, on the leads deduplicate returned *)
SinkWrite ==
  /\ d_result # None
  /\ s_rows = None
  /\ s_rows' = [value |-> CsvRows(d_result.value)]
  /\ UNCHANGED argsVars
  /\ UNCHANGED mainVars
  /\ UNCHANGED workerVars
  /\ UNCHANGED dedupVars
  /\ UNCHANGED phoneVars
  /\ UNCHANGED browserVars
  /\ UNCHANGED geoVars

NextSink == DedupIterate \/ DedupReturn \/ SinkWrite

SpecSink == InitSink /\ [][NextSink]_vars

\* the leads of Scenario A, the MindBody one first
ScenarioA == << GOLDS_ASHBURN_MB, GOLDS_ASHBURN_CF >>

\* C26: reconciling "Gold's Gym Ashburn #0196" (Ashburn, VA, no phone,
\* mindbody) followed by "golds gym ashburn" (Ashburn, VA, phone
\* 5712345678, crossfit) and writing the result gives exactly one row, with
\* phone "(571) 234-5678", provenance "crossfit, mindbody" and name
\* "Gold's Gym Ashburn"
C26_ScenarioA ==
  (d_leads = ScenarioA /\ s_rows # None) =>
    /\ Len(s_rows.value) = 1
    /\ s_rows.value[1].phone
         = << "(", "5", "7", "1", ")", " ", "2", "3", "4", "-", "5", "6", "7", "8" >>
    /\ s_rows.value[1].source
         = << "c", "r", "o", "s", "s", "f", "i", "t", ",", " ",
              "m", "i", "n", "d", "b", "o", "d", "y" >>
    /\ s_rows.value[1].name
         = << "G", "o", "l", "d", "'", "s", " ", "G", "y", "m", " ",
              "A", "s", "h", "b", "u", "r", "n" >>

\* the two leads of Scenario A were reconciled and written
C26_Witness ==
  /\ d_leads = ScenarioA
  /\ d_origin = << << 1, 2 >> >>
  /\ s_rows # None

\* how many buckets of a list have the provenance `source`
BucketsWithSource(buckets, source) ==
  Cardinality({k \in 1..Len(buckets) : buckets[k].source = source})

\* C27 as stated: for every permutation of its input, deduplicate returns
\* as many buckets, and each provenance union as often, whatever the other
\* fields of the buckets are
C27_BucketsOrderIndependent ==
  d_result # None =>
    \A order \in Orders(1..Len(d_leads)) :
      LET other == deduplicate(Permuted(d_leads, order))
      IN  /\ Len(other) = Len(d_result.value)
          /\ \A b \in 1..Len(other) :
               BucketsWithSource(other, other[b].source)
                 = BucketsWithSource(d_result.value, other[b].source)

\* C28: all_leads and source_results change only in a step of main at the
\* collection point, never in a step of a pool worker; such a step takes
\* the outcome of one completed invocation, appends its leads as one block
\* to all_leads and stores its outcome under its source name, leaving the
\* entries of the other sources as they were; so the entry of a collected
\* source always holds the outcome of an invocation of that source
C28_OnlyMainWrites ==
  /\ [][(all_leads' # all_leads \/ source_results' # source_results) =>
          /\ pc = "collect"
          /\ workerVars' = workerVars
          /\ \E i \in Invocations \ collected :
               /\ Done(i)
               /\ collected' = collected \cup {i}
               /\ all_leads' = all_leads \o future[i].leads
               /\ DOMAIN source_results' = DOMAIN source_results \cup {sources[i]}
               /\ source_results'[sources[i]] = << future[i].leads, future[i].elapsed >>
               /\ \A s \in DOMAIN source_results :
                    s # sources[i] => source_results'[s] = source_results[s]]_vars
  /\ [](\A i \in collected :
          future[i].raised
          \/ /\ sources[i] \in DOMAIN source_results
             /\ \E j \in collected :
                  /\ sources[j] = sources[i]
                  /\ ~future[j].raised
                  /\ source_results[sources[i]] = << future[j].leads, future[j].elapsed >>)

\* in parallel mode the second adapter completed first and the first one
\* after a retry; main has collected both, one after the other, and both
\* entries and both blocks of leads are there
C28_Witness ==
  /\ ~sequential
  /\ Len(sources) = 2
  /\ sources[1] # sources[2]
  /\ collected = {1, 2}
  /\ calls[1] > 1
  /\ all_leads = future[2].leads \o future[1].leads
  /\ Len(future[1].leads) = 2
  /\ Len(future[2].leads) = 2
  /\ source_results[sources[2]] = << future[2].leads, future[2].elapsed >>
  /\ source_results[sources[1]] = << future[1].leads, future[1].elapsed >>

(* ------------------------------------------------------------------ *)
(* deduplicate and the Lead objects it is given                         *)
(* ------------------------------------------------------------------ *)

\* the field values of the Leads a list of references refers to
Deref(heap, refs) == [k \in 1..Len(refs) |-> heap[refs[k]]]

\* C31: deduplicate leaves its input unchanged: at every point of the call
\* and after it the list leads holds the same references in the same order,
\* and every input Lead has the field values it had when the call began; the
\* list unique refers to the Leads whose values the loop works on; and a merge
\* writes to no Lead there was: it puts a Lead that did not exist before into
\* the bucket's slot
C31_InputUnchanged ==
  /\ [](/\ d_input = [k \in 1..Len(d_leads) |-> k]
        /\ \A k \in 1..Len(d_leads) : d_heap[d_input[k]] = d_leads[k]
        /\ d_unique = Deref(d_heap, d_refs))
  /\ [][/\ \A r \in DOMAIN d_heap : d_heap'[r] = d_heap[r]
        /\ \A b \in 1..Len(d_refs) :
             d_origin'[b] # d_origin[b] =>
               /\ d_refs'[b] \notin DOMAIN d_heap
               /\ d_refs'[b] \notin {d_input[k] : k \in 1..Len(d_input)}]_vars

\* the call has returned after merging the second input Lead into the bucket
\* the first one created: the bucket is a third Lead with other field values,
\* and the first input Lead still has its own
C31_Witness ==
  /\ d_result # None
  /\ Len(d_leads) = 2
  /\ d_origin = << << 1, 2 >> >>
  /\ d_refs = << 3 >>
  /\ d_heap[3] # d_leads[1]
  /\ d_heap[1] = d_leads[1]

(* ------------------------------------------------------------------ *)
(* The order of the pipeline's stages                                   *)
(* ------------------------------------------------------------------ *)

\* the invocation is in a terminal state of the retry wrapper
Terminal(i) == state[i] \in {"Succeeded", "Exhausted"}

\* C32: the call of deduplicate begins only when every dispatched invocation
\* is Succeeded or Exhausted, and every source was dispatched; the CSV is
\* written only by the step after that call, from what it returned; and
\* whenever main holds reconciled leads or is past that call no invocation
\* is running, sleeping or waiting to start
C32_PipelineOrdering ==
  /\ [][(pc # "write" /\ pc' = "write") =>
          /\ submitted = Len(sources)
          /\ \A i \in Invocations : Terminal(i)
          /\ unique_leads' = deduplicate(all_leads)]_vars
  /\ [][IF pc = "write" /\ pc' # "write"
        THEN /\ csv_file' = CsvRows(unique_leads)
             /\ \A i \in Invocations : Terminal(i)
        ELSE UNCHANGED csv_file]_vars
  /\ []((pc \in {"write", "summary"} \/ unique_leads # << >>)
          => \A i \in Invocations : Terminal(i))

\* two adapters were dispatched, one returned leads and the other used up its
\* budget, and the CSV was written from the reconciled leads
C32_Witness ==
  /\ pc = "summary"
  /\ Len(sources) = 2
  /\ \E i, j \in Invocations : state[i] = "Succeeded" /\ state[j] = "Exhausted"
  /\ unique_leads # << >>
  /\ csv_file = CsvRows(unique_leads)

(* ------------------------------------------------------------------ *)
(* The buckets deduplicate returns                                      *)
(* ------------------------------------------------------------------ *)

\* what the matching rule reads of a lead: its location key and its
\* normalized name
MatchKey(lead) == << LocationKey(lead), _normalize(lead.name) >>

\* no bucket of the list duplicates a bucket before it
PairwiseDistinct(buckets) ==
  \A b, c \in 1..Len(buckets) :
    b < c => ~IsDuplicate(buckets[c], buckets[b], ThresholdNum, ThresholdDen)

\* C33: at every point of the loop and in what deduplicate returns, no
\* bucket has the location key of a bucket before it together with a name
\* that matches that bucket's name; and a step of the loop leaves the
\* location key and the normalized name of every bucket as they were
C33_BucketsPairwiseDistinct ==
  /\ [](/\ PairwiseDistinct(d_unique)
        /\ d_result # None => PairwiseDistinct(d_result.value))
  /\ [][\A b \in 1..Len(d_unique) : MatchKey(d_unique'[b]) = MatchKey(d_unique[b])]_vars

\* deduplicate returned two buckets in the same city; the first was created
\* before the second and took in the third lead after it, which changed its
\* fields but not what the matching rule reads
C33_Witness ==
  /\ d_result # None
  /\ d_origin = << << 1, 3 >>, << 2 >> >>
  /\ LocationKey(d_result.value[1]) = LocationKey(d_result.value[2])
  /\ d_result.value[1] # d_leads[1]
  /\ MatchKey(d_result.value[1]) = MatchKey(d_leads[1])
  /\ MatchKey(d_leads[3]) # MatchKey(d_leads[1])

(* ------------------------------------------------------------------ *)
(* Conservation under reconciliation                                    *)
(* ------------------------------------------------------------------ *)

\* the provenance tags of the leads of a list
TagsOf(leads) == UNION {AsSet(TagList(leads[k])) : k \in 1..Len(leads)}

\* the buckets that absorbed the lead at position k of the input
BucketsOf(k) ==
  {b \in 1..Len(d_origin) : \E n \in 1..Len(d_origin[b]) : d_origin[b][n] = k}

\* C34: every input lead the loop has taken is in exactly one bucket, once,
\* as the lead that opened it or as one merged into it, and a bucket holds
\* nothing else; so when deduplicate has returned, the returned list has one
\* bucket per group of input leads, at most as many buckets as there were
\* leads, none for an empty input, and the provenance tags of the returned
\* buckets are together the provenance tags of the input leads
C34_Conservation ==
  /\ Len(d_origin) = Len(d_unique)
  /\ \A k \in 1..Len(d_leads) :
       IF k < d_next
       THEN /\ Cardinality(BucketsOf(k)) = 1
            /\ \A b \in BucketsOf(k) :
                 Cardinality({n \in 1..Len(d_origin[b]) : d_origin[b][n] = k}) = 1
       ELSE BucketsOf(k) = {}
  /\ \A b \in 1..Len(d_unique) :
       /\ d_origin[b] # << >>
       /\ \A n \in 1..Len(d_origin[b]) : d_origin[b][n] \in 1..Len(d_leads)
       /\ AsSet(TagList(d_unique[b])) = AbsorbedTags(d_origin[b])
  /\ d_result # None =>
       /\ d_next = Len(d_leads) + 1 \/ d_leads = << >>
       /\ Len(d_result.value) = Len(d_origin)
       /\ Len(d_result.value) <= Len(d_leads)
       /\ (d_leads = << >> => d_result.value = << >>)
       /\ TagsOf(d_result.value) = TagsOf(d_leads)

\* three leads of three sources went in and two buckets came out: the first
\* lead alone and the other two merged
C34_Witness ==
  /\ d_result # None
  /\ Len(d_leads) = 3
  /\ d_origin = << << 1 >>, << 2, 3 >> >>
  /\ Cardinality(TagsOf(d_leads)) = 3
  /\ Cardinality(AsSet(TagList(d_result.value[2]))) = 2

(* ------------------------------------------------------------------ *)
(* The waits of the retry wrapper                                       *)
(* ------------------------------------------------------------------ *)

\* C35: run waits only between two attempts: a wait begins only when an
\* attempt has failed and the budget allows another one, and the step that
\* ends the wait starts that attempt; so there is one wait less than there
\* are attempts once an attempt is under way or run has returned, an
\* invocation that used up a budget of n made n attempts and waited n-1
\* times, and the last failed attempt and a successful one are followed by
\* no wait
C35_WaitsOnlyBetweenAttempts ==
  /\ [](\A i \in Invocations :
          /\ state[i] = "Idle" => calls[i] = 0 /\ slept[i] = << >>
          /\ state[i] = "Retrying" =>
               Len(slept[i]) = calls[i] /\ calls[i] < max_retries
          /\ state[i] \in {"Running", "Succeeded", "Exhausted"} =>
               Len(slept[i]) = calls[i] - 1
          /\ state[i] = "Exhausted" =>
               calls[i] = max_retries /\ Len(slept[i]) = max_retries - 1
          /\ state[i] = "Succeeded" =>
               Len(slept[i]) = Len(outcomes[i]) - 1)
  /\ [][\A i \in Invocations :
          /\ slept'[i] # slept[i] =>
               /\ state[i] = "Running" /\ state'[i] = "Retrying"
               /\ Len(slept'[i]) = Len(slept[i]) + 1
               /\ outcomes'[i][Len(outcomes'[i])] \in ErrorKinds
               /\ calls[i] < max_retries
          /\ (state[i] = "Retrying" /\ state'[i] # "Retrying") =>
               state'[i] = "Running" /\ calls'[i] = calls[i] + 1
          /\ state'[i] \in {"Succeeded", "Exhausted"} => slept'[i] = slept[i]]_vars

\* a budget of four: four failed attempts, three waits, and run has returned
C35_Witness ==
  \E i \in Invocations :
    /\ max_retries = 4
    /\ state[i] = "Exhausted"
    /\ calls[i] = 4
    /\ Len(outcomes[i]) = 4
    /\ slept[i] = << 5, 15, 30 >>

====
